---- MODULE Spec2Model ----
(***************************************************************************)
(* SilkCast shared-session streaming engine.                               *)
(*                                                                         *)
(* The model follows the session registry (SessionManager), the session    *)
(* objects it hands out as shared pointers, the capture adapter of every   *)
(* session (CaptureV4L2), the live-stream and UDP request handlers, the    *)
(* responders they dispatch to and the idle reaper.  Every thread of the   *)
(* program is a process of the model: one per HTTP request (its handler,   *)
(* then its responder or its detached UDP producer), the reaper, and the   *)
(* capture producer threads.  A step is one access to shared state.        *)
(***************************************************************************)
EXTENDS Integers, FiniteSets, Sequences, TLC

\* Number of HTTP requests of one run (each request id is used once).
MaxRequests == 2

\* --idle-timeout, in seconds (the reaper evicts when idle_for > this).
idle_timeout_seconds_ == 1

Requests == 1..MaxRequests
\* Session objects are heap objects; a request allocates at most one.
SessionIds == 1..MaxRequests
NoSession == 0

Devices == {"video0"}

VARIABLES
  sessions_,   \* SessionManager::sessions_ : device id -> session object
  mu_,         \* SessionManager::mu_ : "free", or held by "reaper" or a "request"
  session,     \* the Session objects: session[s] for an allocated s
  capture,     \* the CaptureV4L2 object owned by session s
  allocated,   \* number of Session objects created so far
  req,         \* the requests: position, parameters, locals
  reaper,      \* the reaper thread: position and iteration state
  aborted      \* the process was ended by std::terminate

\* The reaper's clock, for the timing of evictions.
VARIABLES
  age,         \* age[s]: clock ticks since last_accessed of session s was set
  wait,        \* clock ticks left of the reaper's sleep_for
  stats_status \* HTTP status of the latest /stream/{device}/stats answer, 0 if none

clockvars == <<age, wait, stats_status>>

\* The frame slot of one capture (the one of session 1) and its threads.
VARIABLES
  buf_mu_,     \* CaptureV4L2::buf_mu_ : "free" or its holder
  buffer_,     \* CaptureV4L2::buffer_ : the bytes stored, as a sequence of chunks
  stored,      \* number of the frame whose buffer_.assign completed last, 0 if none
  producer,    \* the producer thread in loop(): position and dequeued frame
  consumer     \* the latest_frame calls of the consumers: position, out, result

bufvars == <<buf_mu_, buffer_, stored, producer, consumer>>

\* A capture whose producer has not dequeued a frame and that no consumer reads.
BufIdle ==
  /\ buf_mu_ = "free"
  /\ buffer_ = <<>>
  /\ stored = 0
  /\ producer = [pc |-> "select", frame |-> 0]
  /\ consumer = [c \in Requests |->
                   [pc |-> "idle", out |-> <<>>, ret |-> FALSE, after_exit |-> FALSE]]

\* The reaper's clock at rest.
ClockIdle ==
  /\ age = [s \in SessionIds |-> 0]
  /\ wait = 0
  /\ stats_status = 0

\* The fMP4 responders (serve_fmp4_live) and what they wrote to their sinks.
VARIABLES
  fps,         \* CaptureParams::fps of the parameters the responders were given
  session_sps, \* TRUE when Session::sps and Session::pps are both non-empty
  fmp4,        \* fmp4[r]: position and locals of the content provider of r
  ninit,       \* ninit[r]: init segments the sink of r accepted so far
  nfrag,       \* nfrag[r]: fragments the sink of r accepted so far
  last,        \* last[r]: the latest fragment the sink of r accepted
  boot         \* boot[r]: preflight_fmp4_bootstrap called by the handler of r

muxvars == <<fps, session_sps, fmp4, ninit, nfrag, last, boot>>

\* A serve_fmp4_live content provider that has not been called.
NewMux ==
  [pc |-> "idle", sps |-> FALSE, seqno |-> 1, sent_init |-> FALSE,
   mux |-> FALSE, decode_time |-> 0, avcc |-> 0, keyframe |-> FALSE]

\* No fragment: what last[r] holds before the first fragment is written.
NoFragment ==
  [seq |-> 0, tfdt |-> 0, data_offset |-> 0, moof_size |-> 0, moof_len |-> 0,
   sample_size |-> 0, keyframe |-> FALSE, len |-> 0]

\* preflight_fmp4_bootstrap before it is called; i is the loop counter, which
\* exists while the loop runs, error the string the caller gets.
NewBoot == [pc |-> "none", i |-> 0, error |-> ""]

\* preflight_fmp4_bootstrap after it returned true.
BootDone == [pc |-> "ok", i |-> 0, error |-> ""]

\* preflight_fmp4_bootstrap after it returned false with error set.
BootFailed(error) == [pc |-> "failed", i |-> 0, error |-> error]

\* No fMP4 responder was set up.
MuxIdle ==
  /\ fps = 30
  /\ session_sps = FALSE
  /\ fmp4 = [r \in Requests |-> NewMux]
  /\ ninit = [r \in Requests |-> 0]
  /\ nfrag = [r \in Requests |-> 0]
  /\ last = [r \in Requests |-> NoFragment]
  /\ boot = [r \in Requests |-> NewBoot]

\* The Annex-B helpers (annexb_to_avcc, extract_sps_pps) and their callers.
VARIABLES
  nals,        \* the NAL units of the encoder output at hand, in order
  codes,       \* codes[k]: length (3 or 4) of the start code before NAL k
  annexb,      \* the Annex-B buffer: every NAL after its start code
  conv         \* results of the calls made on annexb

nalvars == <<nals, codes, annexb, conv>>

\* No call made: avcc is the result of annexb_to_avcc once converted is TRUE,
\* sps and pps are the vectors handed to extract_sps_pps, visited the number of
\* NAL units its loop examined.
NewConv ==
  [converted |-> FALSE, avcc |-> <<>>, extracted |-> FALSE,
   sps |-> <<>>, pps |-> <<>>, visited |-> 0]

\* No encoder output at hand.
NalIdle ==
  /\ nals = <<>>
  /\ codes = <<>>
  /\ annexb = <<>>
  /\ conv = NewConv

\* One run of a piece of the pipeline: the function, its arguments and locals
\* and what it has done so far.
VARIABLES
  call

callvars == <<call>>

\* No helper call at hand.
CallIdle == call = [fn |-> "none", done |-> FALSE]

auxvars == <<clockvars, bufvars, muxvars, nalvars, callvars>>

vars == <<sessions_, mu_, session, capture, allocated, req, reaper, aborted,
          auxvars>>

----------------------------------------------------------------------------
(* Records *)

CaptureParams(codec, container, geom) ==
  [codec |-> codec, container |-> container, geom |-> geom]

\* CaptureParams default member initialisers.
DefaultParams == CaptureParams("mjpeg", "raw", "vga")

\* A Session as constructed by make_shared<Session>() before its fields are set.
\* idle_for stands for now - last_accessed, in seconds, capped above the timeout.
NewSession(device_id, params) ==
  [device_id |-> device_id, params |-> params, pixel_format |-> "UNKNOWN",
   client_count |-> 0, idle_for |-> 0]

\* A CaptureV4L2 as default-constructed.  fd_ is TRUE when it holds a descriptor;
\* params_ keeps the frame size and rate of the stored CaptureParams;
\* thread_ is TRUE when the handle is joinable; nopen counts the descriptors this
\* adapter opened and has not closed; producers counts the threads running loop();
\* died records that a producer left loop() by itself since the last stop().
NewCapture ==
  [running_ |-> FALSE, stop_flag_ |-> FALSE, fd_ |-> FALSE, thread_ |-> FALSE,
   pixel_format_ |-> "UNKNOWN", params_ |-> DefaultParams.geom,
   nopen |-> 0, producers |-> 0, died |-> FALSE]

NewRequest ==
  [pc |-> "idle", kind |-> "live", device |-> "video0", params |-> DefaultParams,
   session |-> NoSession, found |-> NoSession, status |-> 0,
   served |-> DefaultParams, responder |-> "none"]

Init ==
  /\ sessions_ = [d \in Devices |-> NoSession]
  /\ mu_ = "free"
  /\ session = [s \in SessionIds |-> NewSession("", DefaultParams)]
  /\ capture = [s \in SessionIds |-> NewCapture]
  /\ allocated = 0
  /\ req = [r \in Requests |-> NewRequest]
  /\ reaper = [pc |-> "sleep", todo |-> {}, cur |-> "video0"]
  /\ aborted = FALSE
  /\ ClockIdle
  /\ BufIdle
  /\ MuxIdle
  /\ NalIdle
  /\ CallIdle

----------------------------------------------------------------------------
(* The capture device (external): what the driver answers. *)

\* VIDIOC_S_FMT reads the frame size back: the driver may clamp it.
DeviceClamp(geom) == IF geom = "hd" THEN "vga" ELSE geom

\* The pixel format negotiated for a codec (MJPEG for mjpeg, raw frames for h264).
NegotiatedFormat(codec) == IF codec = "h264" THEN "YUYV" ELSE "MJPEG"

----------------------------------------------------------------------------
(* CaptureV4L2 *)

\* CaptureV4L2::stop(): raise the stop flag, join the producer behind thread_,
\* close the descriptor in fd_, clear running_.  A producer whose handle was
\* overwritten is not joined; it leaves by itself (producer_error).
stop(c) ==
  [c EXCEPT !.stop_flag_ = TRUE,
            !.producers = IF c.thread_ /\ c.producers > 0 THEN c.producers - 1
                          ELSE c.producers,
            !.thread_ = FALSE,
            !.nopen = IF c.fd_ THEN c.nopen - 1 ELSE c.nopen,
            !.fd_ = FALSE,
            !.running_ = FALSE,
            !.died = FALSE]

\* CaptureV4L2::start() up to the open: device_id_ and params_ are stored.
start_store(c, params) == [c EXCEPT !.params_ = params.geom]

\* open() and configure_device() succeeded: fd_ holds a new descriptor, the
\* negotiated frame size and pixel format are stored.
start_opened(c, codec) ==
  [c EXCEPT !.fd_ = TRUE,
            !.nopen = c.nopen + 1,
            !.params_ = DeviceClamp(c.params_),
            !.pixel_format_ = NegotiatedFormat(codec)]

\* open() failed (fd_ = -1), or configure_device() failed (close(fd_); fd_ = -1).
start_failed(c) == [c EXCEPT !.fd_ = FALSE]

\* stop_flag_ = false; running_ = true; thread_ = std::thread(loop).
start_thread(c) ==
  [c EXCEPT !.stop_flag_ = FALSE, !.running_ = TRUE, !.thread_ = TRUE,
            !.producers = c.producers + 1]

----------------------------------------------------------------------------
(* Shared ownership of Session objects *)

Registered(reg) == {reg[d] : d \in Devices} \ {NoSession}

\* Request q holds a shared_ptr to Session s (handler local, responder or UDP
\* lambda capture, or the result of find() in on_done).
Holds(q, s) ==
  /\ req[q].pc \notin {"idle", "done"}
  /\ s \in {req[q].session, req[q].found}

\* Session s is destroyed once no shared_ptr to it is left: it is not in the
\* registry reg and no request outside `leaving` holds it.
Unreferenced(leaving, reg, s) ==
  /\ s \notin Registered(reg)
  /\ \A q \in Requests \ leaving : ~Holds(q, s)

\* The heap after the requests in `leaving` dropped their pointers: destroyed
\* Session objects (and their captures, which ~CaptureV4L2 stops) are gone.
CollectSessions(leaving, reg, sess) ==
  [s \in SessionIds |->
     IF Unreferenced(leaving, reg, s) THEN NewSession("", DefaultParams) ELSE sess[s]]

CollectCaptures(leaving, reg, cap) ==
  [s \in SessionIds |->
     IF Unreferenced(leaving, reg, s) THEN NewCapture ELSE cap[s]]

\* Request r returns with HTTP status `code` (or its thread ends) and drops its
\* pointers; reg, sess and cap are the registry and heap its last step produced.
Leave(r, code, reg, sess, cap) ==
  /\ req' = [req EXCEPT ![r] = [NewRequest EXCEPT !.pc = "done", !.status = code]]
  /\ session' = CollectSessions({r}, reg, sess)
  /\ capture' = CollectCaptures({r}, reg, cap)

----------------------------------------------------------------------------
(* SessionManager *)

\* sessions_.find(device_id) under mu_.
find(device_id) == sessions_[device_id]

\* sync_session_params: copy the frame size and pixel format the capture
\* reports into the session (width, height, fps > 0); the codec is not touched.
sync_session_params(sess, cap) ==
  [sess EXCEPT !.params = [sess.params EXCEPT !.geom = cap.params_],
               !.pixel_format = cap.pixel_format_]

----------------------------------------------------------------------------
(* Request handlers: /stream/live/{device} and /stream/udp/{device} *)

SetReq(r, rec) == [req EXCEPT ![r] = rec]

\* client_count.fetch_add(1) / fetch_sub(1) on one Session object.
fetch_add(sess) == [sess EXCEPT !.client_count = sess.client_count + 1]
fetch_sub(sess) == [sess EXCEPT !.client_count = sess.client_count - 1]

\* last_accessed = steady_clock::now()
touch_now(sess) == [sess EXCEPT !.idle_for = 0]

\* The handler's continuation once the capture runs.
AfterStart(kind) == IF kind = "live" THEN "dispatch" ELSE "udp_loop"

\* The requests of a run: kind ("live" or "udp"), and the CaptureParams that
\* parse_params builds from the query: codec ("mjpeg", "h264"), container ("raw",
\* "mp4"), and width/height/fps as one abstract geometry ("vga", "hd").
RequestProfiles ==
  { <<"live", CaptureParams("mjpeg", "raw", "vga")>>,
    <<"live", CaptureParams("mjpeg", "mp4", "hd")>>,
    <<"live", CaptureParams("h264", "raw", "hd")>>,
    <<"live", CaptureParams("h264", "mp4", "vga")>>,
    <<"udp", CaptureParams("h264", "raw", "vga")>>,
    <<"udp", CaptureParams("mjpeg", "raw", "hd")>> }

\* Fault injection for get_or_create: a new session is inserted on every call,
\* also when the device id is registered.
get_or_create_always_insert(device_id, params) ==
  LET s == allocated + 1
  IN [ret |-> s,
      sessions_ |-> [sessions_ EXCEPT ![device_id] = s],
      session |-> [session EXCEPT ![s] = NewSession(device_id, params)],
      capture |-> [capture EXCEPT ![s] = NewCapture],
      allocated |-> s]

\* Fault injection for get_or_create: a hit overwrites the registered session's
\* params with the caller's.
get_or_create_overwrite(device_id, params) ==
  LET it == find(device_id)
  IN IF it # NoSession
     THEN [ret |-> it, sessions_ |-> sessions_,
           session |-> [session EXCEPT ![it].params = params],
           capture |-> capture, allocated |-> allocated]
     ELSE LET s == allocated + 1
          IN [ret |-> s,
              sessions_ |-> [sessions_ EXCEPT ![device_id] = s],
              session |-> [session EXCEPT ![s] = NewSession(device_id, params)],
              capture |-> [capture EXCEPT ![s] = NewCapture],
              allocated |-> s]

\* SessionManager::get_or_create(device_id, params): under mu_, the registered
\* session when there is one, else a new session with the caller's params.
\* Yields the object returned and the registry and heap afterwards.
get_or_create(device_id, params) ==
  LET it == find(device_id)
  IN IF it # NoSession
     THEN [ret |-> it, sessions_ |-> sessions_, session |-> session,
           capture |-> capture, allocated |-> allocated]
     ELSE LET s == allocated + 1
          IN [ret |-> s,
              sessions_ |-> [sessions_ EXCEPT ![device_id] = s],
              session |-> [session EXCEPT ![s] = NewSession(device_id, params)],
              capture |-> [capture EXCEPT ![s] = NewCapture],
              allocated |-> s]

\* A request arrives: parse_params, then sessions.get_or_create(device_id, params).
handler_get_or_create(r) ==
  /\ req[r].pc = "idle"
  /\ \A q \in Requests : q < r => req[q].pc # "idle"
  /\ mu_ = "free"
  /\ \E d \in Devices, prof \in RequestProfiles :
       LET got == get_or_create(d, prof[2])
       IN /\ sessions_' = got.sessions_
          /\ session' = got.session
          /\ capture' = got.capture
          /\ allocated' = got.allocated
          /\ req' = SetReq(r, [req[r] EXCEPT !.pc = "fetch_add", !.kind = prof[1],
                                             !.device = d, !.params = prof[2],
                                             !.session = got.ret])
  /\ UNCHANGED <<mu_, reaper, aborted>>

\* session->client_count.fetch_add(1); session->last_accessed = now.
attach(r) ==
  /\ req[r].pc = "fetch_add"
  /\ LET s == req[r].session
     IN session' = [session EXCEPT ![s] = touch_now(fetch_add(session[s]))]
  /\ req' = SetReq(r, [req[r] EXCEPT !.pc = IF req[r].kind = "live"
                                            THEN "check_codec" ELSE "check_running"])
  /\ UNCHANGED <<sessions_, mu_, capture, allocated, reaper, aborted>>

\* Fault injection for check_codec: the 409 path returns without fetch_sub.
check_codec_no_fetch_sub(r) ==
  /\ req[r].pc = "check_codec"
  /\ LET s == req[r].session
     IN IF req[r].params.codec # session[s].params.codec
        THEN Leave(r, 409, sessions_, session, capture)
        ELSE /\ req' = SetReq(r, [req[r] EXCEPT !.pc = "check_running"])
             /\ UNCHANGED <<session, capture>>
  /\ UNCHANGED <<sessions_, mu_, allocated, reaper, aborted>>

\* Live handler: params.codec != session->params.codec => 409, fetch_sub, return.
check_codec(r) ==
  /\ req[r].pc = "check_codec"
  /\ LET s == req[r].session
     IN IF req[r].params.codec # session[s].params.codec
        THEN Leave(r, 409, sessions_,
                   [session EXCEPT ![s] = fetch_sub(session[s])], capture)
        ELSE /\ req' = SetReq(r, [req[r] EXCEPT !.pc = "check_running"])
             /\ UNCHANGED <<session, capture>>
  /\ UNCHANGED <<sessions_, mu_, allocated, reaper, aborted>>

\* if (!session->capture->running()) session->capture->start(...)
check_running(r) ==
  /\ req[r].pc = "check_running"
  /\ req' = SetReq(r, [req[r] EXCEPT !.pc = IF capture[req[r].session].running_
                                            THEN AfterStart(req[r].kind)
                                            ELSE "start"])
  /\ UNCHANGED <<sessions_, mu_, session, capture, allocated, reaper, aborted>>

\* CaptureV4L2::start entry: if (running_) return true; else store the params.
start_enter(r) ==
  /\ req[r].pc = "start"
  /\ LET s == req[r].session
     IN IF capture[s].running_
        THEN /\ req' = SetReq(r, [req[r] EXCEPT !.pc = "post_start"])
             /\ UNCHANGED capture
        ELSE /\ req' = SetReq(r, [req[r] EXCEPT !.pc = "start_open"])
             /\ capture' = [capture EXCEPT ![s] = start_store(@, session[s].params)]
  /\ UNCHANGED <<sessions_, mu_, session, allocated, reaper, aborted>>

\* open() and configure_device() succeed.
start_open_ok(r) ==
  /\ req[r].pc = "start_open"
  /\ LET s == req[r].session
     IN capture' = [capture EXCEPT ![s] = start_opened(@, session[s].params.codec)]
  /\ req' = SetReq(r, [req[r] EXCEPT !.pc = "start_thread"])
  /\ UNCHANGED <<sessions_, mu_, session, allocated, reaper, aborted>>

\* open() or configure_device() fails: start returns false; the handler
\* answers 503, does fetch_sub and returns.
start_open_fail(r) ==
  /\ req[r].pc = "start_open"
  /\ LET s == req[r].session
     IN Leave(r, 503, sessions_,
              [session EXCEPT ![s] = fetch_sub(session[s])],
              [capture EXCEPT ![s] = start_failed(@)])
  /\ UNCHANGED <<sessions_, mu_, allocated, reaper, aborted>>

\* stop_flag_ = false; running_ = true; thread_ = std::thread(...).  Assigning
\* to a joinable thread_ calls std::terminate; when the other writer of thread_
\* races with this one the handle may instead be overwritten.
start_spawn(r) ==
  /\ req[r].pc = "start_thread"
  /\ LET s == req[r].session
     IN /\ capture' = [capture EXCEPT ![s] = start_thread(@)]
        /\ \/ /\ aborted' = FALSE
              /\ req' = SetReq(r, [req[r] EXCEPT !.pc = "post_start"])
           \/ /\ capture[s].thread_
              /\ aborted' = TRUE
              /\ UNCHANGED req
  /\ UNCHANGED <<sessions_, mu_, session, allocated, reaper>>

\* After start: sync_session_params(*session); started = now; counters = 0.
post_start(r) ==
  /\ req[r].pc = "post_start"
  /\ LET s == req[r].session
     IN session' = [session EXCEPT ![s] = sync_session_params(session[s], capture[s])]
  /\ req' = SetReq(r, [req[r] EXCEPT !.pc = AfterStart(req[r].kind)])
  /\ UNCHANGED <<sessions_, mu_, capture, allocated, reaper, aborted>>

\* Fault injection for responder_params: the responder is started with the
\* request's own parameters.
responder_params_of_request(session_params, request_params) == request_params

\* The parameters a responder is started with: serve_*(session->params, ...).
responder_params(session_params, request_params) == session_params

\* The responder the live handler dispatches to, from the request's own
\* codec and container.
responder_for(params) ==
  IF params.codec = "mjpeg" THEN "mjpeg"
  ELSE IF params.container = "mp4" THEN "fmp4" ELSE "h264"

\* The live handler after the capture runs: reject mp4 without h264 (400),
\* run the fMP4 preflight (503 on failure), else register the responder.
\* Every rejection does fetch_sub and then release_if_idle.
dispatch(r) ==
  /\ req[r].pc = "dispatch"
  /\ LET s == req[r].session
         p == req[r].params
         reject(code) ==
           /\ session' = [session EXCEPT ![s] = fetch_sub(session[s])]
           /\ req' = SetReq(r, [req[r] EXCEPT !.pc = "release_if_idle",
                                              !.status = code])
         serve ==
           /\ req' = SetReq(r, [req[r] EXCEPT
                       !.pc = "streaming", !.status = 200,
                       !.responder = responder_for(p),
                       !.served = responder_params(session[s].params, p)])
           /\ UNCHANGED session
     IN IF p.container = "mp4" /\ p.codec # "h264"
        THEN reject(400)
        ELSE IF responder_for(p) = "fmp4"
        THEN \/ /\ capture[s].running_
                /\ serve
             \/ reject(503)
        ELSE serve
  /\ UNCHANGED <<sessions_, mu_, capture, allocated, reaper, aborted>>

\* The pixel format a responder needs before it emits.
FormatFits(responder, fmt) ==
  IF responder = "mjpeg" THEN fmt = "MJPEG" ELSE fmt \in {"YUYV", "NV12"}

\* A responder iteration reaches its sink writes: the capture runs and its
\* pixel format fits (latest_frame then delivers the newest frame).
CanEmit(r) ==
  LET c == capture[req[r].session]
  IN c.running_ /\ FormatFits(req[r].responder, c.pixel_format_)

\* One emitted frame: the writes succeed; last_accessed = now.
responder_emit(r) ==
  /\ req[r].pc = "streaming"
  /\ CanEmit(r)
  /\ session' = [session EXCEPT ![req[r].session] = touch_now(@)]
  /\ UNCHANGED <<sessions_, mu_, capture, allocated, req, reaper, aborted>>

\* The provider returns false (a sink write failed because the client is gone,
\* or the responder's encoder could not be initialised) and httplib calls
\* on_done: session_opt = sessions.find(device_id); nothing more when absent.
on_done_find(r) ==
  /\ req[r].pc = "streaming"
  /\ CanEmit(r) \/ req[r].responder \in {"h264", "fmp4"}
  /\ mu_ = "free"
  /\ LET it == find(req[r].device)
     IN IF it = NoSession
        THEN Leave(r, req[r].status, sessions_, session, capture)
        ELSE /\ req' = SetReq(r, [req[r] EXCEPT !.pc = "on_done_sub", !.found = it])
             /\ UNCHANGED <<session, capture>>
  /\ UNCHANGED <<sessions_, mu_, allocated, reaper, aborted>>

\* on_done: (*session_opt)->client_count.fetch_sub(1).
on_done_sub(r) ==
  /\ req[r].pc = "on_done_sub"
  /\ session' = [session EXCEPT ![req[r].found] = fetch_sub(@)]
  /\ req' = SetReq(r, [req[r] EXCEPT !.pc = "release_if_idle"])
  /\ UNCHANGED <<sessions_, mu_, capture, allocated, reaper, aborted>>

\* Fault injection for release_if_idle: the entry is released whatever its
\* client_count.
release_if_idle_any_count(r) ==
  /\ req[r].pc = "release_if_idle"
  /\ mu_ = "free"
  /\ LET it == find(req[r].device)
     IN IF it # NoSession
        THEN /\ mu_' = "request"
             /\ req' = SetReq(r, [req[r] EXCEPT !.pc = "release_erase"])
             /\ UNCHANGED <<session, capture>>
        ELSE /\ Leave(r, req[r].status, sessions_, session, capture)
             /\ UNCHANGED mu_
  /\ UNCHANGED <<sessions_, allocated, reaper, aborted>>

\* SessionManager::release_if_idle, first half: lock mu_, find the entry, load
\* client_count.  Returns when the entry is absent or the count is not 0.
release_if_idle(r) ==
  /\ req[r].pc = "release_if_idle"
  /\ mu_ = "free"
  /\ LET it == find(req[r].device)
     IN IF it # NoSession /\ session[it].client_count = 0
        THEN /\ mu_' = "request"
             /\ req' = SetReq(r, [req[r] EXCEPT !.pc = "release_erase"])
             /\ UNCHANGED <<session, capture>>
        ELSE /\ Leave(r, req[r].status, sessions_, session, capture)
             /\ UNCHANGED mu_
  /\ UNCHANGED <<sessions_, allocated, reaper, aborted>>

\* release_if_idle, second half: capture->stop(); sessions_.erase(it); unlock.
release_erase(r) ==
  /\ req[r].pc = "release_erase"
  /\ mu_ = "request"
  /\ LET d == req[r].device
         it == find(d)
         reg == [sessions_ EXCEPT ![d] = NoSession]
     IN /\ sessions_' = reg
        /\ Leave(r, req[r].status, reg, session, [capture EXCEPT ![it] = stop(@)])
  /\ mu_' = "free"
  /\ UNCHANGED <<allocated, reaper, aborted>>

\* One UDP frame sent: last_accessed = now.  MJPEG datagrams carry whatever
\* frame the capture holds; H.264 needs raw frames.
udp_emit(r) ==
  /\ req[r].pc = "udp_loop"
  /\ LET c == capture[req[r].session]
     IN /\ c.running_
        /\ req[r].params.codec = "h264" => c.pixel_format_ \in {"YUYV", "NV12"}
  /\ session' = [session EXCEPT ![req[r].session] = touch_now(@)]
  /\ UNCHANGED <<sessions_, mu_, capture, allocated, req, reaper, aborted>>

\* The detached UDP thread ends (no socket, invalid target, encoder not ready,
\* duration elapsed): fetch_sub on the captured session, then
\* release_if_idle(session->device_id).
udp_end(r) ==
  /\ req[r].pc = "udp_loop"
  /\ session' = [session EXCEPT ![req[r].session] = fetch_sub(@)]
  /\ req' = SetReq(r, [req[r] EXCEPT !.pc = "release_if_idle"])
  /\ UNCHANGED <<sessions_, mu_, capture, allocated, reaper, aborted>>

----------------------------------------------------------------------------
(* Capture producer threads *)

\* loop(): read error (device gone, descriptor closed): break; running_ = false.
producer_error(s) ==
  /\ s <= allocated
  /\ capture[s].producers > 0
  /\ capture' = [capture EXCEPT ![s].producers = @ - 1, ![s].running_ = FALSE,
                                ![s].died = TRUE]
  /\ UNCHANGED <<sessions_, mu_, session, allocated, req, reaper, aborted>>

----------------------------------------------------------------------------
(* Time and the reaper *)

\* One second passes: every registered session's last_accessed is a second older.
Tick ==
  /\ \E s \in Registered(sessions_) : session[s].idle_for <= idle_timeout_seconds_
  /\ session' = [s \in SessionIds |->
                   IF s \in Registered(sessions_)
                      /\ session[s].idle_for <= idle_timeout_seconds_
                   THEN [session[s] EXCEPT !.idle_for = @ + 1] ELSE session[s]]
  /\ UNCHANGED <<sessions_, mu_, capture, allocated, req, reaper, aborted>>

\* reap_loop: lock mu_ and begin the walk over sessions_.
reap_begin ==
  /\ reaper.pc = "sleep"
  /\ mu_ = "free"
  /\ Registered(sessions_) # {}
  /\ mu_' = "reaper"
  /\ reaper' = [reaper EXCEPT !.pc = "scan",
                              !.todo = {d \in Devices : sessions_[d] # NoSession}]
  /\ UNCHANGED <<sessions_, session, capture, allocated, req, aborted>>

\* The eviction test of reap_loop on one entry.
reap_test(sess) == sess.client_count = 0 /\ sess.idle_for > idle_timeout_seconds_

\* reap_loop: visit one entry; decide whether to evict it.
reap_visit ==
  /\ reaper.pc = "scan"
  /\ \E d \in reaper.todo :
       IF reap_test(session[sessions_[d]])
       THEN reaper' = [reaper EXCEPT !.pc = "evict", !.cur = d]
       ELSE reaper' = [reaper EXCEPT !.todo = @ \ {d}]
  /\ UNCHANGED <<sessions_, mu_, session, capture, allocated, req, aborted>>

\* reap_loop: sess->capture->stop(); it = sessions_.erase(it).
reap_evict ==
  /\ reaper.pc = "evict"
  /\ LET d == reaper.cur
         s == sessions_[d]
         reg == [sessions_ EXCEPT ![d] = NoSession]
     IN /\ sessions_' = reg
        /\ session' = CollectSessions({}, reg, session)
        /\ capture' = CollectCaptures({}, reg, [capture EXCEPT ![s] = stop(@)])
        /\ reaper' = [reaper EXCEPT !.pc = "scan", !.todo = @ \ {d}]
  /\ UNCHANGED <<mu_, allocated, req, aborted>>

\* reap_loop: the walk is over; unlock and sleep 10 s.
reap_end ==
  /\ reaper.pc = "scan"
  /\ reaper.todo = {}
  /\ mu_' = "free"
  /\ reaper' = [reaper EXCEPT !.pc = "sleep"]
  /\ UNCHANGED <<sessions_, session, capture, allocated, req, aborted>>

----------------------------------------------------------------------------

Next ==
  /\ ~aborted
  /\ \/ \E r \in Requests :
          \/ handler_get_or_create(r) \/ attach(r) \/ check_codec(r)
          \/ check_running(r) \/ start_enter(r) \/ start_open_ok(r)
          \/ start_open_fail(r) \/ start_spawn(r) \/ post_start(r)
          \/ dispatch(r) \/ responder_emit(r)
          \/ on_done_find(r) \/ on_done_sub(r)
          \/ release_if_idle(r) \/ release_erase(r)
          \/ udp_emit(r) \/ udp_end(r)
     \/ \E s \in SessionIds : producer_error(s)
     \/ Tick
     \/ reap_begin \/ reap_visit \/ reap_evict \/ reap_end
  /\ UNCHANGED auxvars

Spec == Init /\ [][Next]_vars

----------------------------------------------------------------------------
(* Properties *)

\* The positions of a request between its fetch_add and its fetch_sub: the
\* handler before dispatch, the live responder, the UDP producer, and on_done
\* before its decrement.
AttachedPcs ==
  {"check_codec", "check_running", "start", "start_open", "start_thread",
   "post_start", "dispatch", "streaming", "udp_loop", "on_done_sub"}

Attached(r) == req[r].pc \in AttachedPcs

AttachedTo(s) == {r \in Requests : Attached(r) /\ req[r].session = s}

\* C1: in every reachable state every session's client_count is >= 0.
C1_CountNonNegative ==
  \A s \in SessionIds : session[s].client_count >= 0

\* C2: in every reachable state a session's client_count equals the number of
\* requests attached to that session object (incremented it, not yet finished).
C2_CountEqualsAttached ==
  \A s \in SessionIds : session[s].client_count = Cardinality(AttachedTo(s))

\* Request r makes its get_or_create call in this step.
CallsGetOrCreate(r) == req[r].pc = "idle" /\ req'[r].pc = "fetch_add"

\* C3: every get_or_create call returns the object registered for the device
\* after the call; on a hit it is the object already registered, nothing is
\* allocated and its params stay; on a miss exactly one object is allocated and
\* it carries the caller's params.  Two calls for an unregistered device are
\* serialised by mu_: the first misses, the second hits.
C3_GetOrCreateOnce ==
  [][\A r \in Requests : CallsGetOrCreate(r) =>
       LET d == req'[r].device
           ret == req'[r].session
       IN /\ sessions_'[d] = ret
          /\ sessions_[d] # NoSession =>
               /\ ret = sessions_[d]
               /\ allocated' = allocated
               /\ session' = session
          /\ sessions_[d] = NoSession =>
               /\ allocated' = allocated + 1
               /\ ret = allocated'
               /\ session'[ret].params = req'[r].params
               /\ \A s \in SessionIds \ {ret} : session'[s] = session[s]]_vars

\* Both requests have called get_or_create for the unregistered device before
\* either went on: one object, held by both, with the params of the first call.
C3_Witness ==
  /\ req[1].pc = "fetch_add" /\ req[2].pc = "fetch_add"
  /\ allocated = 1
  /\ req[1].session = 1 /\ req[2].session = 1
  /\ sessions_[req[1].device] = 1
  /\ req[2].params # req[1].params
  /\ session[1].params = req[1].params

\* C4: a capture never holds more than one open descriptor nor more than one
\* producer thread: start takes effect at most once.
C4_StartOnce ==
  \A s \in SessionIds : capture[s].nopen <= 1 /\ capture[s].producers <= 1

\* C5: from its get_or_create until it has finished, the session a request
\* holds is the one registered for its device.
C5_HeldSessionRegistered ==
  \A r \in Requests :
    (req[r].pc = "fetch_add" \/ Attached(r)) =>
      sessions_[req[r].device] = req[r].session

\* C6: a step in which the reaper erases an entry starts in a state where that
\* session's client_count is 0 and its idle time exceeds the timeout.
C6_ReaperErasesIdleOnly ==
  [][(reaper.pc = "evict" /\ reaper'.pc # "evict") =>
       reap_test(session[sessions_[reaper.cur]])]_vars

\* C7: the codec of a session that is registered before and after a step is
\* the same before and after.
C7_CodecLocked ==
  [][\A s \in Registered(sessions_) \cap Registered(sessions_') :
       session'[s].params.codec = session[s].params.codec]_vars

\* A request naming another codec has called get_or_create on a registered
\* session whose capture was started and whose params were synced.
C7_Witness ==
  \E r \in Requests :
    /\ req[r].pc = "fetch_add"
    /\ req[r].session \in Registered(sessions_)
    /\ session[req[r].session].pixel_format # "UNKNOWN"
    /\ capture[req[r].session].running_
    /\ req[r].params.codec # session[req[r].session].params.codec

\* C8: a live request whose codec differs from the registered session's adds
\* one to client_count when it attaches and takes one off when it is answered
\* 409; neither step changes the registry, the session's params or its capture.
C8_ConflictLeavesSession ==
  [][\A r \in Requests :
       LET s == req[r].session
           conflict == /\ req[r].kind = "live"
                       /\ s \in Registered(sessions_)
                       /\ req[r].params.codec # session[s].params.codec
       IN /\ (conflict /\ req[r].pc = "fetch_add" /\ req'[r].pc # "fetch_add") =>
               /\ req'[r].pc = "check_codec"
               /\ session'[s].client_count = session[s].client_count + 1
               /\ session'[s].params = session[s].params
               /\ capture'[s] = capture[s]
               /\ sessions_' = sessions_
          /\ (conflict /\ req[r].pc = "check_codec" /\ req'[r].pc # "check_codec") =>
               /\ req'[r].pc = "done" /\ req'[r].status = 409
               /\ session'[s].client_count = session[s].client_count - 1
               /\ session'[s].params = session[s].params
               /\ capture'[s] = capture[s]
               /\ sessions_' = sessions_]_vars

\* The second request was answered 409 while the first streams: the session is
\* registered with the first as its only client and the capture runs.
C8_Witness ==
  /\ req[2].pc = "done" /\ req[2].status = 409
  /\ req[1].pc = "streaming"
  /\ sessions_[req[1].device] = req[1].session
  /\ session[req[1].session].client_count = 1
  /\ capture[req[1].session].running_

C10_StartFailureReleases ==
  \A r \in Requests :
    ( /\ req[r].pc = "done" /\ req[r].status = 503
      /\ \A q \in Requests \ {r} : req[q].pc \in {"idle", "done"} )
    => Registered(sessions_) = {}

\* C11: a registered session whose capture runs is erased only once its idle
\* time exceeds the timeout: after its last client detached it stays
\* registered, capture running, for the idle grace window.
C11_DrainingUntilTimeout ==
  [][\A s \in Registered(sessions_) \ Registered(sessions_') :
       capture[s].running_ => session[s].idle_for > idle_timeout_seconds_]_vars

----------------------------------------------------------------------------
(* The reaper against the clock.  Time is counted in ticks; a sweep takes no  *)
(* time and sleep_for lasts exactly its argument.                            *)

\* Clock ticks per second.
TicksPerSecond == 2

\* std::this_thread::sleep_for(10s) at the end of every sweep.
reap_period_seconds == 10

\* std::chrono::duration_cast<std::chrono::seconds>: truncation.
duration_cast_seconds(ticks) == ticks \div TicksPerSecond

\* idle_for of a session whose last access is `ticks` old, as reap_loop computes
\* it (kept no larger than needed for the comparison with the timeout).
idle_for_at(ticks) ==
  IF duration_cast_seconds(ticks) > idle_timeout_seconds_
  THEN idle_timeout_seconds_ + 1
  ELSE duration_cast_seconds(ticks)

\* The clock stops once every session is this old.
MaxAge == (idle_timeout_seconds_ + reap_period_seconds + 2) * TicksPerSecond

\* A first request for video0 was answered 503 because capture start failed:
\* its session is registered with client_count 0 and last_accessed = now.  The
\* reaper is anywhere in its sleep.
ClockInit ==
  /\ sessions_ = [d \in Devices |-> 1]
  /\ mu_ = "free"
  /\ session = [s \in SessionIds |->
                  IF s = 1 THEN NewSession("video0", DefaultParams)
                  ELSE NewSession("", DefaultParams)]
  /\ capture = [s \in SessionIds |->
                  IF s = 1 THEN start_failed(start_store(NewCapture, DefaultParams))
                  ELSE NewCapture]
  /\ allocated = 1
  /\ req = [r \in Requests |->
              IF r = 1 THEN [NewRequest EXCEPT !.pc = "done", !.status = 503]
              ELSE NewRequest]
  /\ reaper = [pc |-> "sleep", todo |-> {}, cur |-> "video0"]
  /\ aborted = FALSE
  /\ age = [s \in SessionIds |-> 0]
  /\ wait \in 0..(reap_period_seconds * TicksPerSecond)
  /\ stats_status = 0
  /\ BufIdle
  /\ MuxIdle
  /\ NalIdle
  /\ CallIdle

\* One tick passes while the reaper sleeps.
clock_tick ==
  /\ reaper.pc = "sleep"
  /\ wait > 0
  /\ \E s \in Registered(sessions_) : age[s] < MaxAge
  /\ wait' = wait - 1
  /\ age' = [s \in SessionIds |->
               IF s \in Registered(sessions_) /\ age[s] < MaxAge
               THEN age[s] + 1 ELSE age[s]]
  /\ session' = [s \in SessionIds |->
                   IF s \in Registered(sessions_)
                   THEN [session[s] EXCEPT !.idle_for = idle_for_at(age'[s])]
                   ELSE session[s]]
  /\ UNCHANGED <<sessions_, mu_, capture, allocated, req, reaper, aborted,
                 stats_status>>

\* The reaper's sleep is over: it takes mu_ and starts its sweep.
clock_wake ==
  /\ wait = 0
  /\ reap_begin
  /\ UNCHANGED clockvars

clock_visit == reap_visit /\ UNCHANGED clockvars

clock_evict == reap_evict /\ UNCHANGED clockvars

\* The sweep is over: unlock, sleep_for(10s).
clock_sleep ==
  /\ reap_end
  /\ wait' = reap_period_seconds * TicksPerSecond
  /\ UNCHANGED <<age, stats_status>>

\* GET /stream/{device}/stats: 404 when find() has no session; else
\* sessions.touch(device_id) and 200.
stats(d) ==
  /\ mu_ = "free"
  /\ IF find(d) = NoSession
     THEN /\ stats_status' = 404
          /\ UNCHANGED <<session, age>>
     ELSE /\ stats_status' = 200
          /\ session' = [session EXCEPT ![find(d)] = touch_now(@)]
          /\ age' = [age EXCEPT ![find(d)] = 0]
  /\ UNCHANGED <<sessions_, mu_, capture, allocated, req, reaper, aborted, wait>>

ClockNext ==
  /\ \/ clock_tick \/ clock_wake \/ clock_visit \/ clock_evict \/ clock_sleep
     \/ \E d \in Devices : stats(d)
  /\ UNCHANGED <<bufvars, muxvars, nalvars, callvars>>

ClockSpec == ClockInit /\ [][ClockNext]_vars

\* C12: a registered session with client_count 0 is never older, counted from
\* its last access, than idle_timeout + 10 seconds: by then it is erased (and
\* the stats lookup finds nothing).
C12_ErasedWithinTimeoutPlusPeriod ==
  \A d \in Devices :
    (find(d) # NoSession /\ session[find(d)].client_count = 0) =>
      age[find(d)] <= (idle_timeout_seconds_ + reap_period_seconds) * TicksPerSecond

----------------------------------------------------------------------------
(* Progress.  The steps a thread takes by itself are fair; a client going    *)
(* away, a new request, a device error and time are not.                     *)

\* The steps of request r that the program takes without outside events: the
\* handler up to its dispatch, and on_done once the provider has returned.
HandlerStep(r) ==
  /\ ~aborted
  /\ \/ attach(r) \/ check_codec(r) \/ check_running(r) \/ start_enter(r)
     \/ start_spawn(r) \/ post_start(r) \/ dispatch(r)
     \/ on_done_sub(r) \/ release_if_idle(r) \/ release_erase(r)
  /\ UNCHANGED auxvars

\* The steps of a sweep once the reaper holds mu_.
ReaperStep ==
  /\ ~aborted
  /\ reap_visit \/ reap_evict \/ reap_end
  /\ UNCHANGED auxvars

FairSpec ==
  /\ Spec
  /\ \A r \in Requests : WF_vars(HandlerStep(r))
  /\ WF_vars(ReaperStep)

\* C13: a live responder whose session's capture is not running eventually
\* leaves its loop (and on_done takes its client off the count).
C13_ResponderExitsWhenCaptureStops ==
  \A r \in Requests :
    (req[r].pc = "streaming" /\ ~capture[req[r].session].running_)
      ~> (req[r].pc # "streaming")

\* C14: when a responder leaves its loop, on_done decrements the client_count
\* of the responder's session, once, and goes on to release_if_idle.
C14_OnDoneDecrementsOnce ==
  [][\A r \in Requests :
       LET s == req[r].session
       IN /\ (req[r].pc = "streaming" /\ req'[r].pc # "streaming") =>
               /\ req'[r].pc = "on_done_sub"
               /\ req'[r].found = s
               /\ session' = session
          /\ (req[r].pc = "on_done_sub" /\ req'[r].pc # "on_done_sub") =>
               /\ req'[r].pc = "release_if_idle"
               /\ session'[s].client_count = session[s].client_count - 1]_vars

----------------------------------------------------------------------------
(* The frame slot: CaptureV4L2::loop_mmap / loop_read store frames into     *)
(* buffer_, the responders read it with latest_frame.  A frame is copied    *)
(* chunk by chunk; both sides hold buf_mu_ while they copy.                 *)

\* Frames the device delivers in one run.
MaxFrames == 3

\* The bytes of frame n, as two chunks.
Frame(n) == <<n, n>>

\* Fault injection for lock_guard: the constructor does not wait for the mutex.
lock_guard_no_wait(m) == TRUE

\* std::lock_guard<std::mutex> lock(m): the constructor returns once m is free.
lock_guard(m) == m = "free"

\* Both requests stream MJPEG from session 1, whose capture was started; the
\* producer has not delivered a frame yet.
BufInit ==
  LET p == DefaultParams
      c == start_thread(start_opened(start_store(NewCapture, p), p.codec))
      s == sync_session_params(NewSession("video0", p), c)
  IN /\ sessions_ = [d \in Devices |-> 1]
     /\ mu_ = "free"
     /\ session = [i \in SessionIds |->
                     IF i = 1 THEN [s EXCEPT !.client_count = MaxRequests]
                     ELSE NewSession("", DefaultParams)]
     /\ capture = [i \in SessionIds |-> IF i = 1 THEN c ELSE NewCapture]
     /\ allocated = 1
     /\ req = [r \in Requests |->
                 [NewRequest EXCEPT !.pc = "streaming", !.session = 1,
                                    !.status = 200, !.served = s.params,
                                    !.responder = "mjpeg"]]
     /\ reaper = [pc |-> "sleep", todo |-> {}, cur |-> "video0"]
     /\ aborted = FALSE
     /\ ClockIdle
     /\ BufIdle
     /\ MuxIdle
     /\ NalIdle
     /\ CallIdle

\* select and VIDIOC_DQBUF (or read) deliver the next frame.
loop_dequeue ==
  /\ producer.pc = "select"
  /\ producer.frame < MaxFrames
  /\ producer' = [pc |-> "lock", frame |-> producer.frame + 1]
  /\ UNCHANGED <<capture, buf_mu_, buffer_, stored, consumer>>

\* { std::lock_guard lock(buf_mu_);
loop_lock ==
  /\ producer.pc = "lock"
  /\ lock_guard(buf_mu_)
  /\ buf_mu_' = "producer"
  /\ producer' = [producer EXCEPT !.pc = "assign"]
  /\ UNCHANGED <<capture, buffer_, stored, consumer>>

\* buffer_.assign(...), first chunk: the old bytes behind it are still there.
loop_assign_first ==
  /\ producer.pc = "assign"
  /\ buffer_' = <<Frame(producer.frame)[1]>> \o
                  (IF buffer_ = <<>> THEN <<>> ELSE Tail(buffer_))
  /\ producer' = [producer EXCEPT !.pc = "assign_rest"]
  /\ UNCHANGED <<capture, buf_mu_, stored, consumer>>

\* buffer_.assign(...), the rest; } unlocks.
loop_assign_rest ==
  /\ producer.pc = "assign_rest"
  /\ buffer_' = <<Head(buffer_)>> \o Tail(Frame(producer.frame))
  /\ stored' = producer.frame
  /\ buf_mu_' = "free"
  /\ producer' = [producer EXCEPT !.pc = "select"]
  /\ UNCHANGED <<capture, consumer>>

\* select, VIDIOC_DQBUF or read fails: break; loop() sets running_ = false.
loop_break ==
  /\ producer.pc = "select"
  /\ producer_error(1)
  /\ producer' = [producer EXCEPT !.pc = "exited"]
  /\ UNCHANGED <<buf_mu_, buffer_, stored, consumer>>

\* latest_frame(out) is called: std::lock_guard lock(buf_mu_).
latest_frame_lock(c) ==
  /\ consumer[c].pc = "idle"
  /\ lock_guard(buf_mu_)
  /\ buf_mu_' = "consumer"
  /\ consumer' = [consumer EXCEPT ![c].pc = "locked",
                                  ![c].after_exit = (producer.pc = "exited")]
  /\ UNCHANGED <<capture, buffer_, stored, producer>>

\* if (buffer_.empty()) return false;
latest_frame_empty(c) ==
  /\ consumer[c].pc = "locked"
  /\ buffer_ = <<>>
  /\ buf_mu_' = "free"
  /\ consumer' = [consumer EXCEPT ![c].pc = "returned", ![c].ret = FALSE]
  /\ UNCHANGED <<capture, buffer_, stored, producer>>

\* out = buffer_, first chunk.
latest_frame_copy_first(c) ==
  /\ consumer[c].pc = "locked"
  /\ buffer_ # <<>>
  /\ consumer' = [consumer EXCEPT ![c].pc = "copy", ![c].out = <<Head(buffer_)>>]
  /\ UNCHANGED <<capture, buf_mu_, buffer_, stored, producer>>

\* out = buffer_, the rest; return true.
latest_frame_copy_rest(c) ==
  /\ consumer[c].pc = "copy"
  /\ buf_mu_' = "free"
  /\ consumer' = [consumer EXCEPT ![c].pc = "returned", ![c].ret = TRUE,
                                  ![c].out = @ \o Tail(buffer_)]
  /\ UNCHANGED <<capture, buffer_, stored, producer>>

\* The consumer goes round its loop and will call latest_frame again.
latest_frame_again(c) ==
  /\ consumer[c].pc = "returned"
  /\ consumer' = [consumer EXCEPT ![c] =
                    [pc |-> "idle", out |-> <<>>, ret |-> FALSE, after_exit |-> FALSE]]
  /\ UNCHANGED <<capture, buf_mu_, buffer_, stored, producer>>

BufNext ==
  /\ \/ loop_dequeue \/ loop_lock \/ loop_assign_first \/ loop_assign_rest
     \/ loop_break
     \/ \E c \in Requests :
          \/ latest_frame_lock(c) \/ latest_frame_empty(c)
          \/ latest_frame_copy_first(c) \/ latest_frame_copy_rest(c)
          \/ latest_frame_again(c)
  /\ UNCHANGED <<sessions_, mu_, session, allocated, req, reaper, aborted,
                 clockvars, muxvars, nalvars, callvars>>

BufSpec == BufInit /\ [][BufNext]_vars

\* Consumer c's latest_frame call returns in this step.
Returns(c) == consumer[c].pc # "returned" /\ consumer'[c].pc = "returned"

\* C15: once the producer has left its loop on an error, running_ is false and
\* every latest_frame call made from then on returns false.
C15_NoFrameAfterProducerExit ==
  [][/\ producer'.pc = "exited" => ~capture'[1].running_
     /\ \A c \in Requests :
          (Returns(c) /\ consumer[c].after_exit) => ~consumer'[c].ret]_vars

\* C16: a latest_frame call returns false when no frame has been stored, and
\* otherwise true with out equal to the frame stored last, whole.
C16_LatestFrameIsLastStored ==
  [][\A c \in Requests :
       Returns(c) =>
         IF stored = 0 THEN ~consumer'[c].ret
         ELSE consumer'[c].ret /\ consumer'[c].out = Frame(stored)]_vars

\* One consumer called before the first frame and got false; the other called
\* while the producer waited for buf_mu_ with frame 3 and got frame 2.
C16_Witness ==
  /\ consumer[1].pc = "returned" /\ ~consumer[1].ret
  /\ consumer[2].pc = "returned" /\ consumer[2].ret
  /\ consumer[2].out = Frame(2)
  /\ producer.pc = "lock" /\ producer.frame = 3


----------------------------------------------------------------------------
(* Fragmented MP4: Mp4Fragmenter::build_fragment and the content provider  *)
(* of serve_fmp4_live.  A byte string is kept as its length and the values *)
(* of the fields the properties read.  Times are 90 kHz ticks counted in    *)
(* units of TimeUnit ticks; every sample duration used is a multiple of it, *)
(* so a 32-bit field of ticks holds the unit counts below 2^32 / TimeUnit.  *)

\* Fragments one sink accepts in a run.
MaxFragments == 3

\* Mp4Fragmenter::timescale_.
timescale_ == 90000

\* sample_duration when fps is not positive.
default_sample_duration == 6000

TimeUnit == 2^3

\* Number of TimeUnit multiples a uint32_t count of ticks distinguishes.
Uint32Units == 2^(32 - 3)

\* The fps values of the runs: absent or zero, and the default of the routes.
FpsValues == {0, 30}

\* static_cast<uint32_t>(v), the low 32 bits of v, from its 16-bit halves.
static_cast_uint32(v) == ((v \div 2^16) % 2^16) * 2^16 + (v % 2^16)

\* sample_duration of serve_fmp4_live, in units.
sample_duration(f) ==
  (IF f > 0 THEN timescale_ \div f ELSE default_sample_duration) \div TimeUnit

\* append_box: a box with a payload of payload_len bytes, as the value of its
\* size field and its length in bytes (size field, tag, payload).
append_box(payload_len) ==
  [size |-> static_cast_uint32(payload_len + 8), len |-> 4 + 4 + payload_len]

\* Fault injection for traf_box: the traf payload is appended without a box
\* header.
traf_without_header(payload_len) ==
  [size |-> static_cast_uint32(payload_len), len |-> payload_len]

\* The traf box around tfhd, tfdt and trun: append_box(traf, traf_payload, "traf").
traf_box(payload_len) == append_box(payload_len)

\* Mp4Fragmenter::build_fragment for a sample of avcc_size bytes: mfhd, tfhd,
\* tfdt (version 0: append_be32 of the decode time), the precomputed sizes, trun,
\* traf, moof, then the mdat header and the sample.
build_fragment(avcc_size, seq, base_decode_time, duration, keyframe) ==
  LET mfhd == append_box(4 + 4)
      tfhd == append_box(4 + 4)
      tfdt == append_box(4 + 4)
      trun_payload == 4 + 4 + 4 + 4 + 4 + 4
      trun_size == trun_payload + 8
      traf_size == static_cast_uint32(tfhd.len + tfdt.len + trun_size + 8)
      moof_size == static_cast_uint32(mfhd.len + traf_size + 8)
      data_offset == static_cast_uint32(moof_size + 8)
      trun == append_box(4 + 4 + 4 + 4 + 4 + 4)
      traf == traf_box(tfhd.len + tfdt.len + trun.len)
      moof == append_box(mfhd.len + traf.len)
  IN [seq |-> static_cast_uint32(seq),
      tfdt |-> base_decode_time % Uint32Units,
      data_offset |-> data_offset,
      moof_size |-> moof.size,
      moof_len |-> moof.len,
      sample_size |-> static_cast_uint32(avcc_size),
      keyframe |-> keyframe,
      len |-> moof.len + 4 + 4 + avcc_size]

\* Sizes of the AVCC samples the encoder delivers.
SampleSizes == {0, 1000}

\* Number of fragments whose decode time is below 2^32 ticks.
FieldCapacity(duration) == (Uint32Units - 1) \div duration + 1

\* Fragments a responder of a run has written before the run is observed: none
\* (the provider has not been called), or so many that its decode time is about
\* to pass 2^32 ticks.
WrittenBefore(duration) == {0, FieldCapacity(duration) - 2}

\* Of n fragments written, those written since the run is observed.
WrittenInRun(n, duration) ==
  IF n >= FieldCapacity(duration) - 2 THEN n - (FieldCapacity(duration) - 2) ELSE n

\* The content provider of r after it wrote n fragments, n > 0.
MuxAfter(n, duration) ==
  [NewMux EXCEPT !.pc = "loop", !.sps = TRUE, !.seqno = static_cast_uint32(1 + n),
                 !.sent_init = TRUE, !.mux = TRUE, !.decode_time = n * duration]

\* Both requests stream fMP4 from session 1, whose capture was started for
\* H.264 and whose parameter sets the preflight found; each responder is at the
\* start of its provider or in its loop.
MuxInit ==
  LET p == CaptureParams("h264", "mp4", "vga")
      c == start_thread(start_opened(start_store(NewCapture, p), p.codec))
      s == sync_session_params(NewSession("video0", p), c)
  IN /\ sessions_ = [d \in Devices |-> 1]
     /\ mu_ = "free"
     /\ session = [i \in SessionIds |->
                     IF i = 1 THEN [s EXCEPT !.client_count = MaxRequests]
                     ELSE NewSession("", DefaultParams)]
     /\ capture = [i \in SessionIds |-> IF i = 1 THEN c ELSE NewCapture]
     /\ allocated = 1
     /\ req = [r \in Requests |->
                 [NewRequest EXCEPT !.pc = "streaming", !.params = p,
                                    !.session = 1, !.status = 200,
                                    !.served = s.params, !.responder = "fmp4"]]
     /\ reaper = [pc |-> "sleep", todo |-> {}, cur |-> "video0"]
     /\ aborted = FALSE
     /\ ClockIdle
     /\ BufIdle
     /\ fps \in FpsValues
     /\ nfrag \in [Requests -> WrittenBefore(sample_duration(fps))]
     /\ session_sps = TRUE
     /\ boot = [r \in Requests |-> BootDone]
     /\ fmp4 = [r \in Requests |->
                  IF nfrag[r] = 0 THEN NewMux
                  ELSE MuxAfter(nfrag[r], sample_duration(fps))]
     /\ ninit = [r \in Requests |-> IF nfrag[r] = 0 THEN 0 ELSE 1]
     /\ last = [r \in Requests |->
                  IF nfrag[r] = 0 THEN NoFragment
                  ELSE build_fragment(0, nfrag[r],
                                      (nfrag[r] - 1) * sample_duration(fps),
                                      sample_duration(fps), FALSE)]
     /\ NalIdle
     /\ CallIdle

SetMux(r, rec) == [fmp4 EXCEPT ![r] = rec]

\* encoder.init fails: the provider returns false.
fmp4_init_fail(r) ==
  /\ req[r].pc = "streaming"
  /\ fmp4[r].pc = "idle"
  /\ fmp4' = SetMux(r, [fmp4[r] EXCEPT !.pc = "exited"])
  /\ UNCHANGED <<fps, session_sps, ninit, nfrag, last>>

\* The provider's locals up to the loop: sps and pps copied from the session,
\* seqno = 1, sent_init = false, decode_time = 0, mux created when both are known.
fmp4_enter(r) ==
  /\ req[r].pc = "streaming"
  /\ fmp4[r].pc = "idle"
  /\ fmp4' = SetMux(r, [NewMux EXCEPT !.pc = "loop", !.sps = session_sps,
                                      !.mux = session_sps])
  /\ UNCHANGED <<fps, session_sps, ninit, nfrag, last>>

\* Fault injection for sent_init_after_write: sent_init keeps its value.
sent_init_unchanged(sent_init) == sent_init

\* sent_init after the init segment was written.
sent_init_after_write(sent_init) == TRUE

\* One iteration up to the first write: a frame is encoded to a sample of size
\* bytes; found tells whether extract_sps_pps finds both parameter sets in it.
\* Without a mux the iteration ends (continue).
fmp4_encode(r, size, keyframe, found) ==
  LET m == fmp4[r]
      extracted == ~m.sps /\ found
      mux == m.mux \/ extracted
  IN /\ m.pc = "loop"
     /\ capture[req[r].session].running_
     /\ session_sps' = (session_sps \/ extracted)
     /\ fmp4' = SetMux(r, [m EXCEPT !.sps = m.sps \/ extracted,
                                    !.mux = mux,
                                    !.avcc = size,
                                    !.keyframe = keyframe,
                                    !.pc = IF ~mux THEN "loop"
                                           ELSE IF m.sent_init THEN "fragment"
                                           ELSE "init"])
     /\ UNCHANGED <<fps, ninit, nfrag, last>>

\* sink.write of the init segment; on failure the provider returns false.
fmp4_write_init(r, ok) ==
  LET m == fmp4[r]
  IN /\ m.pc = "init"
     /\ IF ok
        THEN /\ ninit' = [ninit EXCEPT ![r] = @ + 1]
             /\ fmp4' = SetMux(r, [m EXCEPT !.pc = "fragment",
                                    !.sent_init = sent_init_after_write(m.sent_init)])
        ELSE /\ fmp4' = SetMux(r, [m EXCEPT !.pc = "exited"])
             /\ UNCHANGED ninit
     /\ UNCHANGED <<fps, session_sps, nfrag, last>>

\* build_fragment(avcc, seqno++, decode_time, ...), decode_time += sample_duration,
\* then sink.write of the fragment; on failure the provider returns false.
fmp4_write_fragment(r, ok) ==
  LET m == fmp4[r]
      frag == build_fragment(m.avcc, m.seqno, m.decode_time,
                             sample_duration(fps), m.keyframe)
      n == [m EXCEPT !.seqno = static_cast_uint32(m.seqno + 1),
                     !.decode_time = m.decode_time + sample_duration(fps)]
  IN /\ m.pc = "fragment"
     /\ IF ok
        THEN /\ WrittenInRun(nfrag[r], sample_duration(fps)) < MaxFragments
             /\ nfrag' = [nfrag EXCEPT ![r] = @ + 1]
             /\ last' = [last EXCEPT ![r] = frag]
             /\ fmp4' = SetMux(r, [n EXCEPT !.pc = "loop"])
        ELSE /\ fmp4' = SetMux(r, [n EXCEPT !.pc = "exited"])
             /\ UNCHANGED <<nfrag, last>>
     /\ UNCHANGED <<fps, session_sps, ninit>>

\* A step of the content provider of r.
provider_step(r) ==
  \/ fmp4_init_fail(r)
  \/ fmp4_enter(r)
  \/ \E size \in SampleSizes, keyframe, found \in BOOLEAN :
       fmp4_encode(r, size, keyframe, found)
  \/ \E ok \in BOOLEAN : fmp4_write_init(r, ok) \/ fmp4_write_fragment(r, ok)

MuxNext ==
  /\ \E r \in Requests : provider_step(r)
  /\ UNCHANGED <<sessions_, mu_, session, capture, allocated, req, reaper,
                 aborted, clockvars, bufvars, boot, nalvars, callvars>>

MuxSpec == MuxInit /\ [][MuxNext]_vars

C18_DecodeTimeLinear ==
  [][\A r \in Requests :
       nfrag'[r] # nfrag[r] =>
         /\ last'[r].tfdt = (nfrag'[r] - 1) * sample_duration(fps)
         /\ nfrag[r] > 0 => last'[r].tfdt > last[r].tfdt
         /\ <<last'[r].seq, last'[r].tfdt>> # <<last[r].seq, last[r].tfdt>>]_vars


----------------------------------------------------------------------------
(* The fMP4 preflight: the live handler calls preflight_fmp4_bootstrap     *)
(* before it registers serve_fmp4_live, and answers 503 when it fails.     *)

\* Attempts of preflight_fmp4_bootstrap.
kTries == 200

\* What one attempt of the bootstrap loop comes to: latest_frame has no frame,
\* the frame gives no SPS/PPS (encode failed or none in the output), or both
\* parameter sets are found.
AttemptOutcomes == {"no_frame", "retry", "found"}

\* Both requests ask for fMP4 from session 1, whose capture the first of them
\* started for H.264; both handlers are about to dispatch.
BootInit ==
  LET p == CaptureParams("h264", "mp4", "vga")
      c == start_thread(start_opened(start_store(NewCapture, p), p.codec))
      s == sync_session_params(NewSession("video0", p), c)
  IN /\ sessions_ = [d \in Devices |-> 1]
     /\ mu_ = "free"
     /\ session = [i \in SessionIds |->
                     IF i = 1 THEN [s EXCEPT !.client_count = MaxRequests]
                     ELSE NewSession("", DefaultParams)]
     /\ capture = [i \in SessionIds |-> IF i = 1 THEN c ELSE NewCapture]
     /\ allocated = 1
     /\ req = [r \in Requests |->
                 [NewRequest EXCEPT !.pc = "dispatch", !.params = p, !.session = 1]]
     /\ reaper = [pc |-> "sleep", todo |-> {}, cur |-> "video0"]
     /\ aborted = FALSE
     /\ ClockIdle
     /\ BufIdle
     /\ MuxIdle
     /\ NalIdle
     /\ CallIdle

SetBoot(r, rec) == [boot EXCEPT ![r] = rec]

\* preflight_fmp4_bootstrap up to its loop: false when the capture does not
\* run, true when the session has SPS and PPS, false when encoder.init fails.
preflight_enter(r, init_ok) ==
  /\ req[r].pc = "dispatch"
  /\ responder_for(req[r].params) = "fmp4"
  /\ boot[r].pc = "none"
  /\ boot' = SetBoot(r, IF ~capture[req[r].session].running_
                        THEN BootFailed("capture not running")
                        ELSE IF session_sps THEN BootDone
                        ELSE IF ~init_ok THEN BootFailed("h264 encoder init failed")
                        ELSE [NewBoot EXCEPT !.pc = "loop"])
  /\ UNCHANGED <<sessions_, mu_, session, capture, allocated, req, reaper, aborted,
                 clockvars, bufvars, nalvars, callvars, fps, session_sps, fmp4,
                 ninit, nfrag, last>>

\* One pass of for (int i = 0; i < kTries; ++i): without a frame or without
\* parameter sets the next pass follows; a frame in another pixel format than
\* YUYV or NV12 ends the bootstrap; both parameter sets are stored in the session.
preflight_attempt(r, outcome) ==
  LET b == boot[r]
      fits == FormatFits("fmp4", capture[req[r].session].pixel_format_)
  IN /\ b.pc = "loop"
     /\ b.i < kTries
     /\ IF outcome = "no_frame" THEN
          /\ boot' = SetBoot(r, [b EXCEPT !.i = b.i + 1])
          /\ UNCHANGED session_sps
        ELSE IF ~fits THEN
          /\ boot' = SetBoot(r, BootFailed("unsupported pixel format"))
          /\ UNCHANGED session_sps
        ELSE IF outcome = "found" THEN
          /\ boot' = SetBoot(r, BootDone)
          /\ session_sps' = TRUE
        ELSE
          /\ boot' = SetBoot(r, [b EXCEPT !.i = b.i + 1])
          /\ UNCHANGED session_sps
     /\ UNCHANGED <<sessions_, mu_, session, capture, allocated, req, reaper,
                    aborted, clockvars, bufvars, nalvars, callvars, fps, fmp4,
                    ninit, nfrag, last>>

\* The loop ends with i = kTries: "timed out waiting for SPS/PPS".
preflight_timeout(r) ==
  /\ boot[r].pc = "loop"
  /\ ~(boot[r].i < kTries)
  /\ boot' = SetBoot(r, BootFailed("timed out waiting for SPS/PPS"))
  /\ UNCHANGED <<sessions_, mu_, session, capture, allocated, req, reaper, aborted,
                 clockvars, bufvars, nalvars, callvars, fps, session_sps, fmp4,
                 ninit, nfrag, last>>

\* Fault injection for preflight_failed_fetch_sub: the count is left alone.
preflight_failed_no_fetch_sub(sess) == sess

\* session->client_count.fetch_sub(1) of the handler's 503 branch.
preflight_failed_fetch_sub(sess) == fetch_sub(sess)

\* The handler after the bootstrap returned: 503, fetch_sub and then
\* release_if_idle when it failed, else serve_fmp4_live registers the provider.
preflight_return(r) ==
  LET s == req[r].session
  IN /\ req[r].pc = "dispatch"
     /\ boot[r].pc \in {"ok", "failed"}
     /\ IF boot[r].pc = "failed"
        THEN /\ session' = [session EXCEPT ![s] = preflight_failed_fetch_sub(session[s])]
             /\ req' = SetReq(r, [req[r] EXCEPT !.pc = "release_if_idle",
                                                !.status = 503])
        ELSE /\ req' = SetReq(r, [req[r] EXCEPT
                         !.pc = "streaming", !.status = 200,
                         !.responder = responder_for(req[r].params),
                         !.served = responder_params(session[s].params,
                                                     req[r].params)])
             /\ UNCHANGED session
     /\ UNCHANGED <<sessions_, mu_, capture, allocated, reaper, aborted,
                    auxvars>>

BootNext ==
  \/ \E r \in Requests :
       \/ \E init_ok \in BOOLEAN : preflight_enter(r, init_ok)
       \/ \E outcome \in AttemptOutcomes : preflight_attempt(r, outcome)
       \/ preflight_timeout(r)
       \/ preflight_return(r)
       \/ (release_if_idle(r) \/ release_erase(r)) /\ UNCHANGED auxvars
       \/ /\ provider_step(r)
          /\ UNCHANGED <<sessions_, mu_, session, capture, allocated, req,
                         reaper, aborted, clockvars, bufvars, boot, nalvars,
                         callvars>>
  \/ producer_error(1) /\ UNCHANGED auxvars

BootSpec == BootInit /\ [][BootNext]_vars

\* C20: the bootstrap loop never makes more than kTries attempts and returns
\* false after the last one without SPS and PPS; when the
\* handler goes on after a bootstrap that did not obtain SPS and PPS, the
\* request gets status 503, client_count of its session goes down by one and
\* the handler is at its release_if_idle call; a request answered 503 has no
\* provider and no segment written.
C20_BootstrapBoundedThen503 ==
  [][\A r \in Requests :
       LET s == req[r].session
       IN /\ boot'[r].i <= kTries
          /\ (boot[r].i = kTries /\ boot'[r] # boot[r]) =>
               boot'[r] = BootFailed("timed out waiting for SPS/PPS")
          /\ (req[r].pc = "dispatch" /\ req'[r].pc # "dispatch"
                /\ (~session_sps \/ boot[r].pc = "failed")) =>
               /\ req'[r].status = 503
               /\ req'[r].pc = "release_if_idle"
               /\ session'[s].client_count = session[s].client_count - 1
          /\ req'[r].status = 503 =>
               /\ req'[r].responder = "none"
               /\ fmp4'[r].pc = "idle" /\ ninit'[r] = 0 /\ nfrag'[r] = 0]_vars

\* The bootstrap of request 1 used all its attempts and the request was
\* answered 503 and has left, while request 2 of the same session is served.
C20_Witness ==
  /\ boot[1] = BootFailed("timed out waiting for SPS/PPS")
  /\ req[1].pc = "done" /\ req[1].status = 503
  /\ session[1].client_count = 1
  /\ req[2].pc = "streaming" /\ nfrag[2] = 1


----------------------------------------------------------------------------
(* Annex-B helpers: annexb_to_avcc and extract_sps_pps.  A buffer is the    *)
(* sequence of its bytes; position pos of the code is element pos + 1.      *)

\* NAL units of one encoder output.
MaxNals == 3

\* Bytes of one NAL unit.
MaxNalLen == 2

\* Byte values of the runs: 0 and 1 (the bytes of start codes; as a first byte,
\* NAL types 0 and 1), 7 (an SPS header byte) and 8 (a PPS header byte).
NalBytes == {0, 1, 7, 8}

\* The byte strings between two start codes: nothing (two adjacent start
\* codes), or a NAL unit, whose last byte is not 0 and which holds no start code.
RECURSIVE HoldsStartCode(_)
HoldsStartCode(n) ==
  /\ Len(n) >= 3
  /\ \/ (n[1] = 0 /\ n[2] = 0 /\ n[3] \in {0, 1})
     \/ HoldsStartCode(Tail(n))

NalUnits ==
  {n \in UNION {[1..k -> NalBytes] : k \in 0..MaxNalLen} :
     n = <<>> \/ (n[Len(n)] # 0 /\ ~HoldsStartCode(n))}

start_code(size) == IF size = 3 THEN <<0, 0, 1>> ELSE <<0, 0, 0, 1>>

\* The Annex-B buffer of the NAL units ns with start codes of the sizes cs.
RECURSIVE Encode(_, _)
Encode(ns, cs) ==
  IF ns = <<>> THEN <<>>
  ELSE start_code(Head(cs)) \o Head(ns) \o Encode(Tail(ns), Tail(cs))

\* annexb[pos].
At(b, pos) == b[pos + 1]

\* The is_start_code lambda of both helpers.
is_start_code(b, pos) ==
  /\ pos + 2 < Len(b)
  /\ At(b, pos) = 0
  /\ At(b, pos + 1) = 0
  /\ \/ At(b, pos + 2) = 1
     \/ (At(b, pos + 2) = 0 /\ pos + 3 < Len(b) /\ At(b, pos + 3) = 1)

\* while (next + 3 < len && !is_start_code(next)) ++next;
RECURSIVE scan_next(_, _)
scan_next(b, next) ==
  IF next + 3 < Len(b) /\ ~is_start_code(b, next)
  THEN scan_next(b, next + 1) ELSE next

\* The four push_back of the length n, most significant byte first.
push_back_be32(n) ==
  <<(n \div 2^24) % 256, (n \div 2^16) % 256, (n \div 2^8) % 256, n % 256>>

\* The loop of annexb_to_avcc from position i with out built so far.
RECURSIVE annexb_to_avcc_loop(_, _, _)
annexb_to_avcc_loop(b, i, out) ==
  IF ~(i + 3 < Len(b)) THEN out
  ELSE IF ~is_start_code(b, i) THEN annexb_to_avcc_loop(b, i + 1, out)
  ELSE LET sc_size == IF At(b, i + 2) = 1 THEN 3 ELSE 4
           start == i + sc_size
           next == scan_next(b, start)
           end == IF next + 3 < Len(b) THEN next ELSE Len(b)
           nalsize == end - start
       IN annexb_to_avcc_loop(b, next,
            out \o push_back_be32(static_cast_uint32(nalsize))
                \o SubSeq(b, start + 1, start + nalsize))

annexb_to_avcc(b) == annexb_to_avcc_loop(b, 0, <<>>)

\* Both requests stream fMP4 from session 1 at the default rate; the encoder of
\* one of them has delivered the NAL units nals in the buffer annexb.
NalInit ==
  LET p == CaptureParams("h264", "mp4", "vga")
      c == start_thread(start_opened(start_store(NewCapture, p), p.codec))
      s == sync_session_params(NewSession("video0", p), c)
  IN /\ sessions_ = [d \in Devices |-> 1]
     /\ mu_ = "free"
     /\ session = [i \in SessionIds |->
                     IF i = 1 THEN [s EXCEPT !.client_count = MaxRequests]
                     ELSE NewSession("", DefaultParams)]
     /\ capture = [i \in SessionIds |-> IF i = 1 THEN c ELSE NewCapture]
     /\ allocated = 1
     /\ req = [r \in Requests |->
                 [NewRequest EXCEPT !.pc = "streaming", !.params = p,
                                    !.session = 1, !.status = 200,
                                    !.served = s.params, !.responder = "fmp4"]]
     /\ reaper = [pc |-> "sleep", todo |-> {}, cur |-> "video0"]
     /\ aborted = FALSE
     /\ ClockIdle
     /\ BufIdle
     /\ fps = 30
     /\ session_sps = FALSE
     /\ fmp4 = [r \in Requests |-> [NewMux EXCEPT !.pc = "loop"]]
     /\ ninit = [r \in Requests |-> 0]
     /\ nfrag = [r \in Requests |-> 0]
     /\ last = [r \in Requests |-> NoFragment]
     /\ boot = [r \in Requests |-> BootDone]
     /\ nals \in UNION {[1..k -> NalUnits] : k \in 0..MaxNals}
     /\ codes \in [1..Len(nals) -> {3, 4}]
     /\ annexb = Encode(nals, codes)
     /\ conv = NewConv
     /\ CallIdle

\* auto avcc = annexb_to_avcc(nal_annexb);
call_annexb_to_avcc ==
  /\ ~conv.converted
  /\ conv' = [conv EXCEPT !.converted = TRUE, !.avcc = annexb_to_avcc(annexb)]
  /\ UNCHANGED <<nals, codes, annexb>>

\* The encoder delivers the same NAL units with start codes of other sizes, and
\* the buffer is converted.
call_annexb_to_avcc_recoded(cs) ==
  /\ conv.converted
  /\ cs # codes
  /\ codes' = cs
  /\ annexb' = Encode(nals, cs)
  /\ conv' = [conv EXCEPT !.avcc = annexb_to_avcc(annexb')]
  /\ UNCHANGED nals


\* The loop of extract_sps_pps from position i; visited counts the NAL units
\* whose type was examined.
RECURSIVE extract_sps_pps_loop(_, _, _, _, _)
extract_sps_pps_loop(b, i, sps, pps, visited) ==
  IF ~(i + 3 < Len(b)) THEN [sps |-> sps, pps |-> pps, visited |-> visited]
  ELSE IF ~is_start_code(b, i) THEN extract_sps_pps_loop(b, i + 1, sps, pps, visited)
  ELSE LET sc_size == IF At(b, i + 2) = 1 THEN 3 ELSE 4
           start == i + sc_size
           next == scan_next(b, start)
           end == IF next + 3 < Len(b) THEN next ELSE Len(b)
           nalsize == end - start
       IN IF nalsize = 0 THEN extract_sps_pps_loop(b, next, sps, pps, visited)
          ELSE LET nal_type == At(b, start) % 32
                   nal == SubSeq(b, start + 1, start + nalsize)
                   is_sps == nal_type = 7 /\ sps = <<>>
                   sps2 == IF is_sps THEN nal ELSE sps
                   pps2 == IF ~is_sps /\ nal_type = 8 /\ pps = <<>> THEN nal ELSE pps
               IN IF sps2 # <<>> /\ pps2 # <<>>
                  THEN [sps |-> sps2, pps |-> pps2, visited |-> visited + 1]
                  ELSE extract_sps_pps_loop(b, next, sps2, pps2, visited + 1)

extract_sps_pps(b, sps, pps) == extract_sps_pps_loop(b, 0, sps, pps, 0)

\* std::vector<uint8_t> sps, pps; extract_sps_pps(nal_annexb, sps, pps);
call_extract_sps_pps ==
  /\ ~conv.extracted
  /\ LET e == extract_sps_pps(annexb, conv.sps, conv.pps)
     IN conv' = [conv EXCEPT !.extracted = TRUE, !.sps = e.sps, !.pps = e.pps,
                             !.visited = e.visited]
  /\ UNCHANGED <<nals, codes, annexb>>

NalNext ==
  /\ \/ call_annexb_to_avcc
     \/ \E cs \in [1..Len(nals) -> {3, 4}] : call_annexb_to_avcc_recoded(cs)
     \/ call_extract_sps_pps
  /\ UNCHANGED <<sessions_, mu_, session, capture, allocated, req, reaper,
                 aborted, clockvars, bufvars, muxvars, callvars>>

NalSpec == NalInit /\ [][NalNext]_vars

\* The AVCC sample of the NAL units ns: each as its length in four bytes, most
\* significant first, and then its bytes.
RECURSIVE AvccOf(_)
AvccOf(ns) ==
  IF ns = <<>> THEN <<>>
  ELSE push_back_be32(Len(Head(ns))) \o Head(ns) \o AvccOf(Tail(ns))

NonEmpty(n) == n # <<>>

\* C21: the output of annexb_to_avcc is, for every NAL of the buffer in order,
\* its length in four bytes and then exactly its bytes (a zero-length NAL
\* either as a length of 0 or left out), so that its length is the sum over
\* the NALs of 4 + nal_length.
C21_LengthPrefixedNals ==
  conv.converted =>
    \/ conv.avcc = AvccOf(nals)
    \/ conv.avcc = AvccOf(SelectSeq(nals, NonEmpty))

\* The length fields of an AVCC sample, in order.
RECURSIVE AvccLengths(_)
AvccLengths(out) ==
  IF Len(out) < 4 THEN <<>>
  ELSE LET n == ((out[1] * 256 + out[2]) * 256 + out[3]) * 256 + out[4]
       IN <<n>> \o AvccLengths(SubSeq(out, 5 + n, Len(out)))

\* C22: the output of annexb_to_avcc holds no length prefix for a zero-length
\* NAL: none of its length fields is 0.
C22_NoPrefixForEmptyNal ==
  conv.converted =>
    \A k \in 1..Len(AvccLengths(conv.avcc)) : AvccLengths(conv.avcc)[k] # 0

\* C23: converting the same NAL units with start codes of other sizes gives
\* the same AVCC bytes.
C23_StartCodeSizeIrrelevant ==
  [][(conv.converted /\ nals' = nals) => conv'.avcc = conv.avcc]_vars


\* nal_type of a NAL unit: the low five bits of its first byte.
nal_type_of(n) == n[1] % 32

\* Positions in ns of the NAL units of type t.
OfType(ns, t) == {k \in 1..Len(ns) : ns[k] # <<>> /\ nal_type_of(ns[k]) = t}

Min(S) == CHOOSE k \in S : \A j \in S : k <= j

\* The first NAL unit of type t in ns, empty when there is none.
FirstOfType(ns, t) == IF OfType(ns, t) = {} THEN <<>> ELSE ns[Min(OfType(ns, t))]

\* The position in ns at which both the first SPS and the first PPS have been
\* met, when both exist.
BothMetAt(ns) ==
  IF Min(OfType(ns, 7)) > Min(OfType(ns, 8))
  THEN Min(OfType(ns, 7)) ELSE Min(OfType(ns, 8))

\* C24: called with empty vectors, extract_sps_pps leaves in sps the first NAL
\* of the buffer whose type is 7 and in pps the first whose type is 8 (empty
\* when there is none), and examines no NAL after both are recorded.
C24_FirstSpsFirstPps ==
  conv.extracted =>
    /\ conv.sps = FirstOfType(nals, 7)
    /\ conv.pps = FirstOfType(nals, 8)
    /\ (OfType(nals, 7) # {} /\ OfType(nals, 8) # {}) =>
         conv.visited <= BothMetAt(nals)


\* The bootstrap of r stores the parameter sets it found in the session
\* (session->sps = std::move(sps); session->pps = std::move(pps)) in this step.
AssignsSps(r) == boot[r].pc = "loop" /\ boot'[r].pc = "ok"

\* C25: the sps and pps of a session are assigned only while they are empty,
\* also when several fMP4 requests of the session bootstrap at the same time.
C25_SpsAssignedOnce ==
  [][\A r \in Requests : AssignsSps(r) => ~session_sps]_vars


\* ---------------------------------------------------------------------------
\* Pixel-format conversion to planar I420 (yuv_convert.hpp) as the H.264
\* responders call it.  A pointer is an offset into the buffer it points into:
\* the captured frame for the source, the responder's yuv string for the three
\* destination planes.
\* ---------------------------------------------------------------------------

\* Largest width and height of the model.
MaxDim == 4

Dims == 1..MaxDim

\* frame.size(): latest_frame hands out a non-empty string of whatever length
\* the driver delivered.
FrameSizes == 1..(2 * MaxDim * MaxDim)

\* The main variables of a device whose session MaxRequests requests of one
\* kind have joined and now serve from.
ServingAs(p, kind, pc, responder) ==
  LET c == start_thread(start_opened(start_store(NewCapture, p), p.codec))
      s == sync_session_params(NewSession("video0", p), c)
  IN /\ sessions_ = [d \in Devices |-> 1]
     /\ mu_ = "free"
     /\ session = [i \in SessionIds |->
                     IF i = 1 THEN [s EXCEPT !.client_count = MaxRequests]
                     ELSE NewSession("", DefaultParams)]
     /\ capture = [i \in SessionIds |-> IF i = 1 THEN c ELSE NewCapture]
     /\ allocated = 1
     /\ req = [r \in Requests |->
                 [NewRequest EXCEPT !.pc = pc, !.kind = kind, !.params = p,
                                    !.session = 1, !.status = 200,
                                    !.served = s.params,
                                    !.responder = responder]]
     /\ reaper = [pc |-> "sleep", todo |-> {}, cur |-> "video0"]
     /\ aborted = FALSE

\* The same for HTTP responders inside their content provider.
Serving(p, responder) == ServingAs(p, "live", "streaming", responder)

\* for (int x = 0; x < width; x += 2)
EvenBelow(n) == {x \in 0..(n - 1) : x % 2 = 0}

\* const int y_size = p.width * p.height;
y_size(width, height) == width * height

\* const int uv_size = (p.width / 2) * (p.height / 2);
uv_size(width, height) == (width \div 2) * (height \div 2)

\* yuv.resize(y_size + 2 * uv_size);
yuv_size(width, height) == y_size(width, height) + 2 * uv_size(width, height)

\* yuyv_to_i420: the bytes of the source it reads and the bytes of the
\* destination it writes.  It returns void: no input makes it refuse.
yuyv_to_i420(src, width, height, dst_y, dst_u, dst_v) ==
  LET uv_width == width \div 2
      row1(y) == src + y * width * 2
      row2(y) == src + (y + 1) * width * 2
      yplane1(y) == dst_y + y * width
      yplane2(y) == dst_y + (y + 1) * width
      urow(y) == dst_u + (y \div 2) * uv_width
      vrow(y) == dst_v + (y \div 2) * uv_width
  IN [reads |->
        UNION {{row1(y) + 2 * x + k, row2(y) + 2 * x + k} :
                 <<y, x, k>> \in
                   EvenBelow(height) \X EvenBelow(width) \X (0..3)},
      writes |->
        UNION {{yplane1(y) + x, yplane1(y) + x + 1,
                yplane2(y) + x, yplane2(y) + x + 1,
                urow(y) + (x \div 2), vrow(y) + (x \div 2)} :
                 <<y, x>> \in EvenBelow(height) \X EvenBelow(width)},
      rejected |-> FALSE]

\* nv12_to_i420: one memcpy of width bytes per luma row, then the interleaved
\* chroma rows split into the two planes.  It returns void as well.
nv12_to_i420(src_y, src_uv, width, height, src_y_stride, src_uv_stride, dst_y, dst_u, dst_v) ==
  LET uv_height == height \div 2
      Rows == 0..(height - 1)
      Cols == 0..(width - 1)
      UvRows == 0..(uv_height - 1)
  IN [reads |->
        {src_y + y * src_y_stride + x : <<y, x>> \in Rows \X Cols}
        \cup UNION {{src_uv + y * src_uv_stride + x,
                     src_uv + y * src_uv_stride + x + 1} :
                      <<y, x>> \in UvRows \X EvenBelow(width)},
      writes |->
        {dst_y + y * width + x : <<y, x>> \in Rows \X Cols}
        \cup UNION {{dst_u + y * (width \div 2) + (x \div 2),
                     dst_v + y * (width \div 2) + (x \div 2)} :
                      <<y, x>> \in UvRows \X EvenBelow(width)},
      rejected |-> FALSE]

\* A responder holding a frame of some length for a session of some geometry.
PlanarInit ==
  /\ Serving(CaptureParams("h264", "raw", "vga"), "h264")
  /\ ClockIdle
  /\ BufIdle
  /\ MuxIdle
  /\ NalIdle
  /\ call \in [fn : {"yuyv_to_i420", "nv12_to_i420"}, done : {FALSE},
               width : Dims, height : Dims, size : FrameSizes,
               reads : {{}}, writes : {{}}, rejected : {FALSE}]

FinishConversion(out) ==
  /\ call' = [call EXCEPT !.done = TRUE, !.reads = out.reads,
                          !.writes = out.writes, !.rejected = out.rejected]
  /\ UNCHANGED <<sessions_, mu_, session, capture, allocated, req, reaper,
                 aborted, clockvars, bufvars, muxvars, nalvars>>

\* if (fmt == PixelFormat::YUYV) yuyv_to_i420(frame.data(), p.width, p.height,
\*                                            y, u, v);
call_yuyv_to_i420 ==
  /\ call.fn = "yuyv_to_i420"
  /\ ~call.done
  /\ LET w == call.width
         h == call.height
     IN FinishConversion(yuyv_to_i420(0, w, h, 0, y_size(w, h),
                                      y_size(w, h) + uv_size(w, h)))

\* else nv12_to_i420(src_y, src_y + p.width * p.height, p.width, p.height,
\*                   p.width, p.width, y, u, v);
call_nv12_to_i420 ==
  /\ call.fn = "nv12_to_i420"
  /\ ~call.done
  /\ LET w == call.width
         h == call.height
     IN FinishConversion(nv12_to_i420(0, w * h, w, h, w, w, 0, y_size(w, h),
                                      y_size(w, h) + uv_size(w, h)))

PlanarNext ==
  \/ call_yuyv_to_i420
  \/ call_nv12_to_i420

PlanarSpec == PlanarInit /\ [][PlanarNext]_vars

\* The frame length the geometry declares: two bytes a pixel for YUYV, three
\* bytes for two pixels for NV12.
DeclaredSize(fn, width, height) ==
  IF fn = "yuyv_to_i420" THEN 2 * width * height
  ELSE (3 * width * height) \div 2

Converted == call.done /\ call.fn \in {"yuyv_to_i420", "nv12_to_i420"}

\* C26: a conversion of a frame whose width or height is odd, or whose length
\* is not the one its geometry declares, is rejected, and no conversion reads
\* outside the frame or writes outside the destination buffer.
C26_RejectsBadGeometryStaysInBounds ==
  Converted =>
    /\ (\/ call.width % 2 = 1
        \/ call.height % 2 = 1
        \/ call.size # DeclaredSize(call.fn, call.width, call.height))
         => call.rejected
    /\ call.reads \subseteq 0..(call.size - 1)
    /\ call.writes \subseteq 0..(yuv_size(call.width, call.height) - 1)


\* ---------------------------------------------------------------------------
\* Query parameters and the latency preset (parse_params, apply_latency_preset).
\* ---------------------------------------------------------------------------

\* The parameters a query may carry, and the values the model lets it name:
\* the documented ones, the empty codec and one undocumented codec and
\* container.
ParamNames == {"codec", "latency", "container", "gop", "bitrate"}

Codecs == {"", "mjpeg", "h264", "hevc"}

Latencies == {"view", "ultra", "zerolatency"}

Containers == {"raw", "mp4", "ts"}

Gops == {1, 30}

Bitrates == {100, 512, 4000}

Queries ==
  [codec : Codecs, latency : Latencies, container : Containers, gop : Gops,
   bitrate : Bitrates]

\* CaptureParams p; the member initialisers of the fields the preset touches.
ParsedDefaults ==
  [codec |-> "mjpeg", latency |-> "view", container |-> "raw", gop |-> 30,
   bitrate_kbps |-> 256]

\* The preset without the assignment of gop.
apply_latency_preset_keep_gop(p) ==
  IF p.latency = "zerolatency"
  THEN [p EXCEPT
          !.codec = IF p.codec = "" \/ p.codec = "mjpeg" THEN "h264" ELSE @,
          !.container = IF p.container = "mp4" THEN "raw" ELSE @,
          !.bitrate_kbps = IF p.bitrate_kbps < 512 THEN 512 ELSE @,
          !.latency = "ultra"]
  ELSE p

\* void apply_latency_preset(CaptureParams &p)
apply_latency_preset(p) ==
  IF p.latency = "zerolatency"
  THEN [p EXCEPT
          !.codec = IF p.codec = "" \/ p.codec = "mjpeg" THEN "h264" ELSE @,
          !.container = IF p.container = "mp4" THEN "raw" ELSE @,
          !.gop = 1,
          !.bitrate_kbps = IF p.bitrate_kbps < 512 THEN 512 ELSE @,
          !.latency = "ultra"]
  ELSE p

\* CaptureParams parse_params(const httplib::Request &req): has is the set of
\* parameters the query carries, q their values.
parse_params(has, q) ==
  LET p == [codec |-> IF "codec" \in has THEN q.codec
                      ELSE ParsedDefaults.codec,
            latency |-> IF "latency" \in has THEN q.latency
                        ELSE ParsedDefaults.latency,
            container |-> IF "container" \in has THEN q.container
                          ELSE ParsedDefaults.container,
            gop |-> IF "gop" \in has THEN q.gop ELSE ParsedDefaults.gop,
            bitrate_kbps |-> IF "bitrate" \in has THEN q.bitrate
                             ELSE ParsedDefaults.bitrate_kbps]
  IN apply_latency_preset(p)

\* A request whose query is about to be parsed.
ParamInit ==
  /\ sessions_ = [d \in Devices |-> NoSession]
  /\ mu_ = "free"
  /\ session = [s \in SessionIds |-> NewSession("", DefaultParams)]
  /\ capture = [s \in SessionIds |-> NewCapture]
  /\ allocated = 0
  /\ req = [r \in Requests |-> NewRequest]
  /\ reaper = [pc |-> "sleep", todo |-> {}, cur |-> "video0"]
  /\ aborted = FALSE
  /\ ClockIdle
  /\ BufIdle
  /\ MuxIdle
  /\ NalIdle
  /\ call \in [fn : {"parse_params"}, done : {FALSE}, has : SUBSET ParamNames,
               q : Queries, p : {ParsedDefaults}, reapplied : {FALSE},
               again : {ParsedDefaults}]

ParamFrame ==
  UNCHANGED <<sessions_, mu_, session, capture, allocated, req, reaper,
              aborted, clockvars, bufvars, muxvars, nalvars>>

\* CaptureParams params = parse_params(req);
call_parse_params ==
  /\ call.fn = "parse_params"
  /\ ~call.done
  /\ call' = [call EXCEPT !.done = TRUE, !.p = parse_params(call.has, call.q)]
  /\ ParamFrame

\* The rewrite applied once more to the parsed parameters.
call_apply_latency_preset ==
  /\ call.fn = "parse_params"
  /\ call.done
  /\ ~call.reapplied
  /\ call' = [call EXCEPT !.reapplied = TRUE,
                          !.again = apply_latency_preset(call.p)]
  /\ ParamFrame

ParamNext ==
  \/ call_parse_params
  \/ call_apply_latency_preset

ParamSpec == ParamInit /\ [][ParamNext]_vars

\* The query asks for the zerolatency preset.
NamesZeroLatency ==
  call.fn = "parse_params" /\ "latency" \in call.has
    /\ call.q.latency = "zerolatency"

\* The query keeps to the documented values of codec and container.
NamesDocumented ==
  /\ "codec" \in call.has => call.q.codec \in {"mjpeg", "h264"}
  /\ "container" \in call.has => call.q.container \in {"raw", "mp4"}

MaxFrameBytes == 3000

\* const size_t mtu = 1400;
mtu == 1400

\* static const char start_code[] = {0x00, 0x00, 0x00, 0x01};
sizeof_start_code == 4

\* One sendto of len bytes of which the first header bytes are a header the
\* thread wrote; the thread writes none.
sendto(len) == [len |-> len, header |-> 0]

\* The thread holds a frame (MJPEG, never empty) or the encoder's output for
\* one frame (H.264) and has sent nothing of it yet.
UdpInit ==
  /\ \/ /\ ServingAs(CaptureParams("h264", "raw", "vga"), "udp", "udp_loop",
                     "none")
        /\ call \in [fn : {"udp_h264"}, done : {FALSE},
                     size : 0..MaxFrameBytes, offset : {0}, sent : {<<>>}]
     \/ /\ ServingAs(CaptureParams("mjpeg", "raw", "vga"), "udp", "udp_loop",
                     "none")
        /\ call \in [fn : {"udp_mjpeg"}, done : {FALSE},
                     size : 1..MaxFrameBytes, offset : {0}, sent : {<<>>}]
  /\ ClockIdle
  /\ BufIdle
  /\ MuxIdle
  /\ NalIdle

\* packet = start_code + nal; sendto(sock, packet.data(), packet.size(), ...);
udp_send_h264 ==
  /\ call.fn = "udp_h264"
  /\ ~call.done
  /\ call' = [call EXCEPT
                !.done = TRUE,
                !.offset = call.size,
                !.sent = Append(@, sendto(sizeof_start_code + call.size))]
  /\ ParamFrame

\* while (offset < frame.size()) { chunk = min(mtu, frame.size() - offset);
\*   sendto(sock, frame.data() + offset, chunk, ...); offset += chunk; }
udp_send_mjpeg ==
  /\ call.fn = "udp_mjpeg"
  /\ ~call.done
  /\ LET chunk == IF mtu < call.size - call.offset THEN mtu
                  ELSE call.size - call.offset
     IN call' = [call EXCEPT
                   !.offset = @ + chunk,
                   !.sent = Append(@, sendto(chunk)),
                   !.done = ~(call.offset + chunk < call.size)]
  /\ ParamFrame

UdpNext ==
  \/ udp_send_h264
  \/ udp_send_mjpeg

UdpSpec == UdpInit /\ [][UdpNext]_vars

\* C28: every datagram of an H.264 frame starts with the fixed header and
\* carries after it at most mtu minus the header's size bytes of payload, and a
\* frame that does not fit one datagram has gone out in several.
C28_HeaderAndFragments ==
  (call.fn = "udp_h264" /\ call.done) =>
    /\ \A k \in 1..Len(call.sent) :
         /\ call.sent[k].header > 0
         /\ call.sent[k].len <= mtu
    /\ sizeof_start_code + call.size > mtu => Len(call.sent) > 1


\* ---------------------------------------------------------------------------
\* Raw H.264 responders and requests for an IDR frame.  The routes registered
\* in main are /, /device/list, /device/{device}/caps, /stream/{device}/stats,
\* /stream/live/{device} and /stream/udp/{device}; Session has no counter of
\* IDR requests and serve_h264_live reads none.
\* ---------------------------------------------------------------------------

\* Number of feedback requests of a run.
MaxFeedbacks == 2

\* A content provider of serve_h264_live about to construct its encoder.
\* forced counts the force_idr calls and encoded the encode_i420 calls since the
\* last feedback request (since the start before the first one).
NewH264Responder ==
  [pc |-> "init", first |-> TRUE, forced |-> 0, encoded |-> 0]

\* An H264Encoder object not yet constructed.  creator is the responder whose
\* provider constructed it, forced tells that force_idr was called on it, users
\* are the responders that encoded with it, and cold tells that an encode_i420
\* call came before any force_idr call.
NoEncoder == [creator |-> 0, forced |-> FALSE, users |-> {}, cold |-> FALSE]

\* The encoder objects of a run: one local to each provider, and number 0 for
\* a session-owned one.
EncoderIds == 0..MaxRequests

\* The encoder of the session, shared by its responders.
session_encoder(r) == 0

\* H264Encoder encoder; the object a provider encodes with is its own local.
encoder_of(r) == r

\* Two H.264 responders on one session, raw (serve_h264_live) or fMP4
\* (serve_fmp4_live, which has no first flag), and no feedback request yet.
IdrInit ==
  /\ \/ /\ Serving(CaptureParams("h264", "raw", "vga"), "h264")
        /\ call = [fn |-> "serve_h264_live", done |-> FALSE,
                   responder |-> [r \in Requests |-> NewH264Responder],
                   enc |-> [e \in EncoderIds |-> NoEncoder],
                   feedbacks |-> 0, status |-> 0]
     \/ /\ Serving(CaptureParams("h264", "mp4", "vga"), "fmp4")
        /\ call = [fn |-> "serve_h264_live", done |-> FALSE,
                   responder |-> [r \in Requests |->
                                   [NewH264Responder EXCEPT !.first = FALSE]],
                   enc |-> [e \in EncoderIds |-> NoEncoder],
                   feedbacks |-> 0, status |-> 0]
  /\ ClockIdle
  /\ BufIdle
  /\ MuxIdle
  /\ NalIdle

SetResponder(r, v, enc) ==
  /\ call' = [call EXCEPT !.responder[r] = v, !.enc = enc]
  /\ ParamFrame

\* encoder.encode_i420 counted, up to two per feedback request.
Counted(n) == IF n < 2 THEN n + 1 ELSE n

\* if (!encoder.init(session->params)) return false;
\* encoder.force_idr(); encoder_ready = true;
h264_init(r, ok) ==
  /\ call.fn = "serve_h264_live"
  /\ call.responder[r].pc = "init"
  /\ LET e == encoder_of(r)
         fresh == call.enc[e].creator = 0
     IN IF ~fresh
        THEN SetResponder(r, [call.responder[r] EXCEPT !.pc = "loop"], call.enc)
        ELSE IF ok
        THEN SetResponder(r, [call.responder[r] EXCEPT !.pc = "loop",
                                                       !.forced = @ + 1],
                          [call.enc EXCEPT ![e].creator = r,
                                           ![e].forced = TRUE])
        ELSE SetResponder(r, [call.responder[r] EXCEPT !.pc = "exit"],
                          call.enc)

\* One pass of for (;;) up to the encoder: the waits for a running capture and
\* a frame, the conversion, and if (first) { encoder.force_idr(); first = false; }
h264_convert(r) ==
  /\ call.fn = "serve_h264_live"
  /\ call.responder[r].pc = "loop"
  /\ SetResponder(r, [call.responder[r] EXCEPT
                        !.pc = "encode",
                        !.first = FALSE,
                        !.forced = IF call.responder[r].first THEN @ + 1
                                   ELSE @],
                  [call.enc EXCEPT
                     ![encoder_of(r)].forced = @ \/ call.responder[r].first])

\* encoder.encode_i420(y, u, v, nal), then the writes to the sink: a failed
\* write ends the provider.
h264_encode(r, written) ==
  /\ call.fn = "serve_h264_live"
  /\ call.responder[r].pc = "encode"
  /\ SetResponder(r, [call.responder[r] EXCEPT
                        !.pc = IF written THEN "loop" ELSE "exit",
                        !.encoded = Counted(@)],
                  [call.enc EXCEPT
                     ![encoder_of(r)].users = @ \cup {r},
                     ![encoder_of(r)].cold =
                        @ \/ ~call.enc[encoder_of(r)].forced])

\* POST /stream/video0/feedback?type=idr: no route matches, the server answers
\* 404 and nothing of the session or of a responder changes.  The counts of the
\* responders restart so that they are those since this request.
feedback_idr ==
  /\ call.fn = "serve_h264_live"
  /\ call.feedbacks < MaxFeedbacks
  /\ call' = [call EXCEPT
                !.feedbacks = @ + 1,
                !.status = 404,
                !.responder = [r \in Requests |->
                                 [call.responder[r] EXCEPT !.forced = 0,
                                                           !.encoded = 0]]]
  /\ ParamFrame

IdrNext ==
  \/ \E r \in Requests :
       \/ \E ok \in BOOLEAN : h264_init(r, ok)
       \/ h264_convert(r)
       \/ \E written \in BOOLEAN : h264_encode(r, written)
  \/ feedback_idr

IdrSpec == IdrInit /\ [][IdrNext]_vars

\* C29: once a feedback request for an IDR frame has been made on a session
\* with raw H.264 responders, the request is answered 200 and every responder
\* that has encoded since has called force_idr exactly once since the request,
\* before that encode.
C29_FeedbackForcesIdr ==
  (call.fn = "serve_h264_live" /\ call.feedbacks > 0) =>
    /\ call.status = 200
    /\ \A r \in Requests :
         call.responder[r].encoded > 0 => call.responder[r].forced = 1


\* ---------------------------------------------------------------------------
\* release_if_idle as a whole: its test and what it does after it.
\* ---------------------------------------------------------------------------

\* Request r leaves the test of release_if_idle in this step.
TestsIdle(r) == req[r].pc = "release_if_idle" /\ req'[r].pc # "release_if_idle"

\* Request r runs the stop and the erase of release_if_idle in this step.
ErasesIdle(r) == req[r].pc = "release_erase" /\ req'[r].pc # "release_erase"

\* C30: release_if_idle(device_id) goes on to stop the capture and erase the
\* entry exactly when the entry exists and the client_count it loads is 0, and
\* then the entry is gone and its capture stopped while every other entry
\* stays; in every other case the registry, the registered session and its
\* capture are as before.
C30_ReleaseIfIdleEffect ==
  [][\A r \in Requests :
       LET d == req[r].device
           it == find(d)
       IN /\ TestsIdle(r) =>
               IF it # NoSession /\ session[it].client_count = 0
               THEN /\ req'[r].pc = "release_erase"
                    /\ mu_' = "request"
               ELSE /\ req'[r].pc = "done"
                    /\ sessions_' = sessions_
                    /\ it # NoSession =>
                         session'[it] = session[it] /\ capture'[it] = capture[it]
          /\ ErasesIdle(r) =>
               /\ it # NoSession
               /\ sessions_' = [sessions_ EXCEPT ![d] = NoSession]
               /\ ~capture'[it].running_
               /\ ~capture'[it].thread_
               /\ ~capture'[it].fd_]_vars

\* A request found its device's entry with client_count 0 and a running
\* capture, and is about to stop and erase it.
C30_Witness ==
  \E r \in Requests :
    /\ req[r].pc = "release_erase"
    /\ find(req[r].device) # NoSession
    /\ capture[find(req[r].device)].running_


\* ---------------------------------------------------------------------------
\* The lifetime of the SessionManager: construction member by member in the
\* order of declaration (mu_, sessions_, reaper_thread_, stop_reaper_,
\* idle_timeout_seconds_), service, destruction.  A member not yet initialised
\* holds an indeterminate value: a read of it yields either value.
\* ---------------------------------------------------------------------------

\* The object as the constructor finds it: mu_ and sessions_ are initialised,
\* reaper_thread_ is next.  ctor names the next member to initialise; early_*
\* record a read of a member before its initialisation.
NewManager ==
  [fn |-> "SessionManager", done |-> FALSE, ctor |-> "reaper_thread_",
   dtor |-> "none", stop_reaper_ |-> "indeterminate",
   idle_timeout_seconds_ |-> "indeterminate", thread |-> "none",
   map |-> "alive", early_stop |-> FALSE, early_timeout |-> FALSE]

LifeInit ==
  /\ sessions_ = [d \in Devices |-> NoSession]
  /\ mu_ = "free"
  /\ session = [s \in SessionIds |-> NewSession("", DefaultParams)]
  /\ capture = [s \in SessionIds |-> NewCapture]
  /\ allocated = 0
  /\ req = [r \in Requests |-> NewRequest]
  /\ reaper = [pc |-> "unstarted", todo |-> {}, cur |-> "video0"]
  /\ aborted = FALSE
  /\ ClockIdle
  /\ BufIdle
  /\ MuxIdle
  /\ NalIdle
  /\ call = NewManager

LifeAux == UNCHANGED <<clockvars, bufvars, muxvars, nalvars>>

LifeMain ==
  UNCHANGED <<sessions_, mu_, session, capture, allocated, req, aborted>>

\* reaper_thread_([this] { reap_loop(); }): the thread starts at the loop test.
ctor_reaper_thread_ ==
  /\ call.fn = "SessionManager"
  /\ call.ctor = "reaper_thread_"
  /\ call' = [call EXCEPT !.ctor = "stop_reaper_", !.thread = "running"]
  /\ reaper' = [reaper EXCEPT !.pc = "test"]
  /\ LifeMain
  /\ LifeAux

\* std::atomic<bool> stop_reaper_{false};
ctor_stop_reaper_ ==
  /\ call.fn = "SessionManager"
  /\ call.ctor = "stop_reaper_"
  /\ call' = [call EXCEPT !.ctor = "idle_timeout_seconds_",
                          !.stop_reaper_ = "false"]
  /\ UNCHANGED reaper
  /\ LifeMain
  /\ LifeAux

\* idle_timeout_seconds_(idle_timeout_seconds); the constructor returns.
ctor_idle_timeout_seconds_ ==
  /\ call.fn = "SessionManager"
  /\ call.ctor = "idle_timeout_seconds_"
  /\ call' = [call EXCEPT !.ctor = "done", !.idle_timeout_seconds_ = "set"]
  /\ UNCHANGED reaper
  /\ LifeMain
  /\ LifeAux

\* while (!stop_reaper_): the loop test of reap_loop.
reap_loop_test(v) ==
  /\ call.fn = "SessionManager"
  /\ reaper.pc = "test"
  /\ v \in (IF call.stop_reaper_ = "indeterminate" THEN {"false", "true"}
            ELSE {call.stop_reaper_})
  /\ call' = [call EXCEPT
                !.early_stop = @ \/ call.stop_reaper_ = "indeterminate",
                !.thread = IF v = "true" THEN "exited" ELSE @]
  /\ reaper' = [reaper EXCEPT !.pc = IF v = "true" THEN "exited" ELSE "sweep"]
  /\ LifeMain
  /\ LifeAux

\* lock_guard lock(mu_); the walk starts.  A walk over an empty map ends at
\* once and the thread sleeps.
reap_loop_lock ==
  /\ call.fn = "SessionManager"
  /\ reaper.pc = "sweep"
  /\ mu_ = "free"
  /\ IF Registered(sessions_) = {}
     THEN /\ reaper' = [reaper EXCEPT !.pc = "sleep"]
          /\ UNCHANGED mu_
     ELSE /\ reaper' = [reaper EXCEPT
                          !.pc = "scan",
                          !.todo = {d \in Devices : sessions_[d] # NoSession}]
          /\ mu_' = "reaper"
  /\ UNCHANGED <<sessions_, session, capture, allocated, req, aborted, call>>
  /\ LifeAux

\* One entry visited: idle_timeout_seconds_ is read when client_count is 0.
reap_loop_visit ==
  /\ call.fn = "SessionManager"
  /\ reap_visit
  /\ call' = [call EXCEPT
                !.early_timeout =
                   \/ @
                   \/ /\ call.idle_timeout_seconds_ = "indeterminate"
                      /\ \E d \in reaper.todo :
                           session[sessions_[d]].client_count = 0]
  /\ LifeAux

reap_loop_evict ==
  /\ call.fn = "SessionManager"
  /\ reap_evict
  /\ UNCHANGED call
  /\ LifeAux

reap_loop_unlock ==
  /\ call.fn = "SessionManager"
  /\ reap_end
  /\ UNCHANGED call
  /\ LifeAux

\* std::this_thread::sleep_for(10s) is over.
reap_loop_wake ==
  /\ call.fn = "SessionManager"
  /\ reaper.pc = "sleep"
  /\ reaper' = [reaper EXCEPT !.pc = "test"]
  /\ UNCHANGED call
  /\ LifeMain
  /\ LifeAux

\* A request served by the constructed manager that ends with its session
\* registered and client_count 0 (capture start failed: 503 without release).
life_request ==
  /\ call.fn = "SessionManager"
  /\ call.ctor = "done"
  /\ call.dtor = "none"
  /\ mu_ = "free"
  /\ \E d \in Devices :
       LET got == get_or_create(d, DefaultParams)
           s == got.ret
       IN /\ find(d) = NoSession
          /\ allocated < MaxRequests
          /\ sessions_' = got.sessions_
          /\ session' = [got.session EXCEPT ![s] = touch_now(@)]
          /\ capture' = [got.capture EXCEPT
                           ![s] = start_failed(start_store(@, DefaultParams))]
          /\ allocated' = got.allocated
  /\ UNCHANGED <<mu_, req, reaper, aborted, call>>
  /\ LifeAux

life_tick ==
  /\ call.fn = "SessionManager"
  /\ Tick
  /\ UNCHANGED call
  /\ LifeAux

\* The destructor without the store to stop_reaper_.
dtor_enter_no_stop ==
  /\ call.fn = "SessionManager"
  /\ call.ctor = "done"
  /\ call.dtor = "none"
  /\ call' = [call EXCEPT !.dtor = "join"]
  /\ UNCHANGED reaper
  /\ LifeMain
  /\ LifeAux

\* ~SessionManager(): stop_reaper_ = true;
dtor_enter ==
  /\ call.fn = "SessionManager"
  /\ call.ctor = "done"
  /\ call.dtor = "none"
  /\ call' = [call EXCEPT !.dtor = "join", !.stop_reaper_ = "true"]
  /\ UNCHANGED reaper
  /\ LifeMain
  /\ LifeAux

\* if (reaper_thread_.joinable()) reaper_thread_.join(); returns once the
\* thread has left reap_loop.
dtor_join ==
  /\ call.fn = "SessionManager"
  /\ call.dtor = "join"
  /\ call.thread = "exited"
  /\ call' = [call EXCEPT !.dtor = "members", !.thread = "joined"]
  /\ UNCHANGED reaper
  /\ LifeMain
  /\ LifeAux

\* The members are destroyed in reverse order; sessions_ drops its sessions.
dtor_members ==
  /\ call.fn = "SessionManager"
  /\ call.dtor = "members"
  /\ LET reg == [d \in Devices |-> NoSession]
     IN /\ sessions_' = reg
        /\ session' = CollectSessions({}, reg, session)
        /\ capture' = CollectCaptures({}, reg, capture)
  /\ call' = [call EXCEPT !.dtor = "returned", !.map = "destroyed",
                          !.done = TRUE]
  /\ UNCHANGED <<mu_, allocated, req, reaper, aborted>>
  /\ LifeAux

ReaperThread ==
  \/ \E v \in {"false", "true"} : reap_loop_test(v)
  \/ reap_loop_lock
  \/ reap_loop_visit
  \/ reap_loop_evict
  \/ reap_loop_unlock
  \/ reap_loop_wake

Destructor ==
  \/ dtor_enter
  \/ dtor_join
  \/ dtor_members

LifeNext ==
  \/ ctor_reaper_thread_
  \/ ctor_stop_reaper_
  \/ ctor_idle_timeout_seconds_
  \/ ReaperThread
  \/ life_request
  \/ life_tick
  \/ Destructor

\* The scheduler runs the reaper thread and the destructing thread.
LifeSpec ==
  LifeInit /\ [][LifeNext]_vars /\ WF_vars(ReaperThread) /\ WF_vars(Destructor)

\* C31: a destructor that has started always returns, and the session map is
\* destroyed only after the reaper thread has left its loop and been joined.
C31_DestructorJoinsReaper ==
  /\ [](call.fn = "SessionManager" =>
          (call.map = "destroyed" => call.thread = "joined"))
  /\ (call.fn = "SessionManager" /\ call.dtor = "join")
       ~> (call.fn = "SessionManager" /\ call.dtor = "returned")

\* The destructor has returned after joining a reaper thread that was asleep
\* or at work on a registered session when it started.
C31_Witness ==
  /\ call.fn = "SessionManager"
  /\ call.dtor = "returned"
  /\ call.thread = "joined"
  /\ allocated > 0

\* C40: the reaper thread reads neither stop_reaper_ nor idle_timeout_seconds_
\* before the constructor has initialised it.
C40_ReaperReadsInitialised ==
  call.fn = "SessionManager" => ~call.early_stop /\ ~call.early_timeout


MaxFps == 1100

\* std::max(a, b)
std_max(a, b) == IF a < b THEN b ELSE a

\* const int frame_interval_ms = std::max(1, 1000 / std::max(1, p.fps));
frame_interval_ms(p_fps) == std_max(1, 1000 \div std_max(1, p_fps))

\* std::chrono::milliseconds(1000 / std::max(1, p.fps))
fmp4_interval_ms(p_fps) == 1000 \div std_max(1, p_fps)

\* The milliseconds a responder of the given kind sleeps after an emission.
sleep_ms(responder, p_fps) ==
  IF responder = "fmp4" THEN fmp4_interval_ms(p_fps)
  ELSE frame_interval_ms(p_fps)

\* A responder of some kind, serving with some fps, has just emitted.
SleepInit ==
  /\ \E responder \in {"mjpeg", "h264", "fmp4", "udp"} :
       /\ Serving(CaptureParams(IF responder = "mjpeg" THEN "mjpeg" ELSE "h264",
                                IF responder = "fmp4" THEN "mp4" ELSE "raw",
                                "vga"),
                  responder)
       /\ call \in [fn : {"sleep_for"}, done : {FALSE},
                    responder : {responder}, fps : (-1)..MaxFps, ms : {0}]
  /\ ClockIdle
  /\ BufIdle
  /\ MuxIdle
  /\ NalIdle

\* std::this_thread::sleep_for(std::chrono::milliseconds(...)) at the end of an
\* iteration that emitted.
responder_sleep ==
  /\ call.fn = "sleep_for"
  /\ ~call.done
  /\ call' = [call EXCEPT !.done = TRUE,
                          !.ms = sleep_ms(call.responder, call.fps)]
  /\ ParamFrame

SleepSpec == SleepInit /\ [][responder_sleep]_vars

\* C33: whatever the fps, a responder of any kind sleeps at least 1 ms after
\* an emission.
C33_SleepAtLeastOneMs ==
  (call.fn = "sleep_for" /\ call.done) => call.ms >= 1


\* ---------------------------------------------------------------------------
\* One /stream/udp request from its attach to the end of its producer thread.
\* adds and subs count the request's own fetch_add and fetch_sub calls on
\* client_count, released its release_if_idle calls.
\* ---------------------------------------------------------------------------

\* Largest duration of the model, in seconds; the smallest is -1.
MaxDuration == 2

\* The request has its parameters; get_or_create is next.
UdpLifeInit ==
  /\ sessions_ = [d \in Devices |-> NoSession]
  /\ mu_ = "free"
  /\ session = [s \in SessionIds |-> NewSession("", DefaultParams)]
  /\ capture = [s \in SessionIds |-> NewCapture]
  /\ allocated = 0
  /\ req = [r \in Requests |-> NewRequest]
  /\ reaper = [pc |-> "sleep", todo |-> {}, cur |-> "video0"]
  /\ aborted = FALSE
  /\ ClockIdle
  /\ BufIdle
  /\ MuxIdle
  /\ NalIdle
  /\ call \in [fn : {"udp_request"}, done : {FALSE}, pc : {"attach"},
               codec : {"mjpeg", "h264"}, duration_sec : (-1)..MaxDuration,
               elapsed : {0}, adds : {0}, subs : {0}, released : {0},
               status : {0}, frames : {0}]

\* session->client_count.fetch_sub(1); sessions.release_if_idle(device_id);
\* return; at the end of the thread or on one of its early failures.
udp_thread_return(pc) ==
  call' = [call EXCEPT !.pc = pc, !.subs = @ + 1, !.released = @ + 1,
                       !.done = TRUE]

\* The invalid-target exit without its fetch_sub.
udp_bad_target_no_fetch_sub(pc) ==
  call' = [call EXCEPT !.pc = pc, !.released = @ + 1, !.done = TRUE]

\* inet_pton(...) != 1: close(sock); fetch_sub; release_if_idle; return.
udp_bad_target(pc) == udp_thread_return(pc)

\* get_or_create; fetch_add(1); last_accessed = now.
udp_attach ==
  /\ call.fn = "udp_request"
  /\ call.pc = "attach"
  /\ call' = [call EXCEPT !.pc = "check_running", !.adds = @ + 1]
  /\ ParamFrame

\* if (!capture->running()) { if (!capture->start(...)) { 503; fetch_sub;
\* return; } ... }  then the producer thread is detached and 200 is answered.
udp_start(running, started) ==
  /\ call.fn = "udp_request"
  /\ call.pc = "check_running"
  /\ IF running \/ started
     THEN call' = [call EXCEPT !.pc = "socket", !.status = 200]
     ELSE call' = [call EXCEPT !.pc = "done", !.status = 503, !.subs = @ + 1,
                               !.done = TRUE]
  /\ ParamFrame

\* int sock = socket(AF_INET, SOCK_DGRAM, 0); if (sock < 0) { ...; return; }
udp_socket(ok) ==
  /\ call.fn = "udp_request"
  /\ call.pc = "socket"
  /\ IF ok THEN call' = [call EXCEPT !.pc = "inet_pton"]
     ELSE udp_thread_return("done")
  /\ ParamFrame

\* if (inet_pton(AF_INET, target.c_str(), &addr.sin_addr) != 1) { ...; return; }
udp_inet_pton(ok) ==
  /\ call.fn = "udp_request"
  /\ call.pc = "inet_pton"
  /\ IF ok THEN call' = [call EXCEPT !.pc = "loop"]
     ELSE udp_bad_target("done")
  /\ ParamFrame

\* One pass of while (true) that goes round: the capture does not run, there
\* is no frame, the pixel format does not fit, the encoder fails, or a frame
\* is sent.
udp_pass(sent) ==
  /\ call.fn = "udp_request"
  /\ call.pc = "loop"
  /\ call.elapsed < call.duration_sec
  /\ call' = [call EXCEPT !.frames = IF sent THEN Counted(@) ELSE @]
  /\ ParamFrame

\* if (elapsed >= duration_sec) break;  or, with a frame at hand and H.264
\* asked for, if (!encoder_ready) break;  or a codec that is neither.
udp_break(encoder_ready) ==
  /\ call.fn = "udp_request"
  /\ call.pc = "loop"
  /\ \/ call.elapsed >= call.duration_sec
     \/ call.codec = "h264" /\ ~encoder_ready
  /\ call' = [call EXCEPT !.pc = "close"]
  /\ ParamFrame

\* close(sock); fetch_sub(1); release_if_idle(session->device_id);
udp_close ==
  /\ call.fn = "udp_request"
  /\ call.pc = "close"
  /\ udp_thread_return("done")
  /\ ParamFrame

\* A second of steady_clock passes while the thread is in its loop.
udp_second ==
  /\ call.fn = "udp_request"
  /\ call.pc = "loop"
  /\ call.elapsed < call.duration_sec
  /\ call' = [call EXCEPT !.elapsed = @ + 1]
  /\ ParamFrame

UdpRequest ==
  \/ udp_attach
  \/ \E running, started \in BOOLEAN : udp_start(running, started)
  \/ \E ok \in BOOLEAN : udp_socket(ok)
  \/ \E ok \in BOOLEAN : udp_inet_pton(ok)
  \/ \E sent \in BOOLEAN : udp_pass(sent)
  \/ \E encoder_ready \in BOOLEAN : udp_break(encoder_ready)
  \/ udp_close

UdpLifeNext ==
  \/ UdpRequest
  \/ udp_second

\* The handler and its thread are scheduled, and time passes.
UdpLifeSpec ==
  UdpLifeInit /\ [][UdpLifeNext]_vars /\ WF_vars(UdpRequest)
    /\ WF_vars(udp_second)

\* C34: a UDP request never decrements more often than it incremented, a
\* request that has incremented ends with exactly one decrement, whichever exit
\* it takes, and it does end.
C34_UdpDecrementsOnce ==
  /\ [](call.fn = "udp_request" =>
          /\ call.subs <= call.adds
          /\ call.pc = "done" => (call.adds = 1 /\ call.subs = 1))
  /\ (call.fn = "udp_request" /\ call.adds = 1)
       ~> (call.fn = "udp_request" /\ call.pc = "done" /\ call.subs = 1)

\* A thread that sent frames for its whole duration has ended with its one
\* decrement.
C34_Witness ==
  /\ call.fn = "udp_request"
  /\ call.pc = "done"
  /\ call.frames > 0
  /\ call.elapsed = MaxDuration
  /\ call.subs = 1


\* ---------------------------------------------------------------------------
\* Claims about the registry and the captures, checked under Spec.
\* ---------------------------------------------------------------------------

\* C35: a step in which a live responder finishes goes on to decrement the
\* session object the request incremented: on_done finds that object, whatever
\* happened to the registry entry meanwhile.
C35_DoneDecrementsOwnSession ==
  [][\A r \in Requests :
       (req[r].pc = "streaming" /\ req'[r].pc # "streaming") =>
         (req'[r].pc = "on_done_sub" /\ req'[r].found = req[r].session)]_vars


\* C36: of the capture adapters of one device id, those of sessions erased from
\* the registry but still referenced included, at most one is running.
C36_OneRunningCapturePerDevice ==
  \A d \in Devices :
    Cardinality({s \in SessionIds : /\ s <= allocated
                                    /\ session[s].device_id = d
                                    /\ capture[s].running_}) <= 1


\* C37: a step of CaptureV4L2::start that opens the device starts in a state
\* where the adapter holds no open descriptor and no joinable producer handle,
\* and a step that creates the producer thread starts in a state where the
\* handle is not joinable and the only open descriptor is the one just opened.
C37_StartOnCleanAdapter ==
  [][\A s \in SessionIds :
       /\ capture'[s].nopen > capture[s].nopen =>
            (capture[s].nopen = 0 /\ ~capture[s].thread_)
       /\ capture'[s].producers > capture[s].producers =>
            (capture[s].nopen <= 1 /\ ~capture[s].thread_)]_vars


\* C38: a request that is attached to a session and past the handler's codec
\* test, live or UDP, asked for the codec the session is locked to.
C38_AttachedCodecIsLockedCodec ==
  \A r \in Requests :
    (Attached(r) /\ req[r].pc # "check_codec") =>
      req[r].params.codec = session[req[r].session].params.codec


\* ---------------------------------------------------------------------------
\* The statistics counters of a session while one live responder writes to its
\* sink.  written and emitted are what the sink took: the bytes of the writes
\* that returned true, and the frames whose writes all returned true.
\* ---------------------------------------------------------------------------

\* Sizes in bytes of the frames, NAL units and AVCC samples of the model.
PayloadSizes == {0, 1, 10}

\* std::to_string(n).size() for the sizes above.
to_string_size(n) == IF n < 10 THEN 1 ELSE 2

\* "--frame\r\nContent-Type: image/jpeg\r\nContent-Length: " + to_string(n) +
\* "\r\n\r\n"
prefix_size(n) == 2 + 5 + 2 + 24 + 2 + 16 + to_string_size(n) + 4

\* build_init_segment().size(): the ftyp box (three brands and a version) and a
\* moov box whose size grows with the parameter sets.
init_seg_size(moov_payload) == append_box(4 + 4 + 4 + 4 + 4).len + append_box(moov_payload).len

\* One responder of each kind on a session whose counters were just reset.
StatInit ==
  /\ \/ Serving(CaptureParams("mjpeg", "raw", "vga"), "mjpeg")
     \/ Serving(CaptureParams("h264", "raw", "vga"), "h264")
     \/ Serving(CaptureParams("h264", "mp4", "vga"), "fmp4")
  /\ call = [fn |-> "statistics", done |-> FALSE, responder |-> req[1].responder,
             sent_init |-> FALSE, passes |-> 0,
             frames_sent |-> 0, bytes_sent |-> 0, written |-> 0, emitted |-> 0]
  /\ ClockIdle
  /\ BufIdle
  /\ MuxIdle
  /\ NalIdle

\* The sink's account of a pass whose first k writes, of sizes, returned true.
RECURSIVE SumTo(_, _)
SumTo(sizes, k) == IF k = 0 THEN 0 ELSE sizes[k] + SumTo(sizes, k - 1)

\* A pass of a provider over writes of the given sizes of which the first k
\* return true: after the last one frames_sent.fetch_add(1) and
\* bytes_sent.fetch_add(counted); a write that returns false ends the provider.
stat_pass(sizes, k, counted) ==
  /\ call' = [call EXCEPT
                !.passes = @ + 1,
                !.written = @ + SumTo(sizes, k),
                !.emitted = IF k = Len(sizes) THEN @ + 1 ELSE @,
                !.frames_sent = IF k = Len(sizes) THEN @ + 1 ELSE @,
                !.bytes_sent = IF k = Len(sizes) THEN @ + counted ELSE @,
                !.sent_init = @ \/ (call.responder = "fmp4" /\ k >= 1),
                !.done = k < Len(sizes)]
  /\ ParamFrame

\* serve_mjpeg_live: prefix, frame (latest_frame delivers no empty one),
\* "\r\n"; counted prefix + frame + 2.
stat_mjpeg(n, k) ==
  /\ call.fn = "statistics" /\ ~call.done /\ call.passes < MaxFrames
  /\ call.responder = "mjpeg"
  /\ k <= 3
  /\ stat_pass(<<prefix_size(n), n, 2>>, k, prefix_size(n) + n + 2)

\* serve_h264_live: nothing for an empty NAL; else start code and NAL; counted
\* 4 + nal.size().
stat_h264(n, k) ==
  /\ call.fn = "statistics" /\ ~call.done /\ call.passes < MaxFrames
  /\ call.responder = "h264"
  /\ IF n = 0
     THEN k = 0 /\ call' = [call EXCEPT !.passes = @ + 1] /\ ParamFrame
     ELSE k <= 2 /\ stat_pass(<<4, n>>, k, 4 + n)

\* serve_fmp4_live: the init segment before the first fragment, then the
\* fragment; counted frag.size().
stat_fmp4(n, moov_payload, k) ==
  /\ call.fn = "statistics" /\ ~call.done /\ call.passes < MaxFrames
  /\ call.responder = "fmp4"
  /\ LET frag == build_fragment(n, call.passes + 1, 0, 1, FALSE)
     IN IF call.sent_init
        THEN k <= 1 /\ stat_pass(<<frag.len>>, k, frag.len)
        ELSE k <= 2 /\ stat_pass(<<init_seg_size(moov_payload), frag.len>>, k, frag.len)

\* The handler of a later request restarts the capture: frames_sent = 0;
\* bytes_sent = 0.  The account of the sink starts again with them.
stat_reset ==
  /\ call.fn = "statistics" /\ ~call.done
  /\ call.passes > 0
  /\ call' = [call EXCEPT !.frames_sent = 0, !.bytes_sent = 0,
                          !.written = 0, !.emitted = 0]
  /\ ParamFrame

StatNext ==
  \/ \E n \in PayloadSizes \ {0}, k \in 0..3 : stat_mjpeg(n, k)
  \/ \E n \in PayloadSizes, k \in 0..2 : stat_h264(n, k)
  \/ \E n \in PayloadSizes, m \in 1..2, k \in 0..2 : stat_fmp4(n, m, k)
  \/ stat_reset

StatSpec == StatInit /\ [][StatNext]_vars

\* C39: since the last reset bytes_sent has grown by the bytes the responder
\* wrote to its sink with success, and frames_sent by one per emitted frame.
C39_CountersMatchSink ==
  call.fn = "statistics" =>
    (call.bytes_sent = call.written /\ call.frames_sent = call.emitted)

====
